---------------------------- MODULE Spec2Model ----------------------------
(***************************************************************************)
(* Model of logseq-copy-as-markdown: the tokenizer (LogseqParser), the     *)
(* three token generators and the three block-tree converters.             *)
(*                                                                         *)
(* A JavaScript string is a sequence of one-character strings, so that     *)
(* "TODO a" is <<"T","O","D","O"," ","a">>.  Offsets are 0-based as in the *)
(* source; a sequence index is the offset plus one.                        *)
(***************************************************************************)
EXTENDS Integers, Sequences, FiniteSets, TLC

VARIABLES
    content,          \* parse(content): the argument
    position,         \* parse: let position
    tokens,           \* parse: const tokens
    parsed,           \* parse: TRUE once the scan loop was left and tokens returned
    block,            \* convertBlock(block, options): the root block
    options,          \* convertBlock(block, options): the export options
    result,           \* the ExportResult of the last convertBlock call
    listDepthOffset,  \* AsciiDocConverter.listDepthOffset (static field)
    enteredWith,      \* listDepthOffset as the last AsciiDoc convertBlock found it
    conversions,      \* the AsciiDoc convertBlock calls in progress, block visit by block visit
    service           \* the ExportService operation in progress, and the host it runs against

vars == <<content, position, tokens, parsed, block, options, result, listDepthOffset,
          enteredWith, conversions, service>>

parserVars == <<content, position, tokens, parsed>>

converterVars == <<block, options, result, listDepthOffset, enteredWith>>

callVars == <<conversions, service>>

\* no ExportService operation was called
NoService == [op |-> "none"]

\* no convertBlock call is in progress and no ExportService operation either
CallsIdle ==
    /\ conversions = <<>>
    /\ service = NoService

-----------------------------------------------------------------------------
(* Bounds of the model.                                                    *)

\* A tokenizer input is the concatenation of at most MaxFrags fragments.
MaxFrags == 3

-----------------------------------------------------------------------------
(* JavaScript string and regular-expression primitives.                    *)

\* The backquote character (U+0060), which a TLA+ string literal cannot hold:
\* the model writes it as the otherwise unused character ^.
Backquote == "^"

Min(S) == CHOOSE x \in S : \A y \in S : x <= y

Max2(a, b) == IF a >= b THEN a ELSE b

\* s.substring(from): the characters from the offset on.
Substring(s, from) == SubSeq(s, from + 1, Len(s))

\* s.substring(from, to): the characters at offsets from .. to-1.
Slice(s, from, to) == SubSeq(s, from + 1, IF to > Len(s) THEN Len(s) ELSE to)

\* s.startsWith(p)
StartsWith(s, p) == Len(s) >= Len(p) /\ SubSeq(s, 1, Len(p)) = p

\* p occurs in s at offset i
OccursAt(s, p, i) == i + Len(p) <= Len(s) /\ SubSeq(s, i + 1, i + Len(p)) = p

\* s.indexOf(p) / s.search(/p/) for a literal p: first offset, or -1.
IndexOf(s, p) ==
    LET hits == {i \in 0..Len(s) : OccursAt(s, p, i)}
    IN  IF hits = {} THEN -1 ELSE Min(hits)

\* s.indexOf(p, from): first offset >= from, or -1.
IndexOfFrom(s, p, from) ==
    LET hits == {i \in from..Len(s) : OccursAt(s, p, i)}
    IN  IF hits = {} THEN -1 ELSE Min(hits)

\* s.includes(p)
Includes(s, p) == IndexOf(s, p) # -1

\* A character class [...] or [^...]: the characters it lists, and whether it
\* is negated.
Class(chars) == [negated |-> FALSE, chars |-> chars]

NotClass(chars) == [negated |-> TRUE, chars |-> chars]

InClass(x, class) == (x \in class.chars) # class.negated

\* s.search(/[class]/): first offset of a character of the class, or -1.
SearchClass(s, class) ==
    LET hits == {i \in 1..Len(s) : InClass(s[i], class)}
    IN  IF hits = {} THEN -1 ELSE Min(hits) - 1

\* The length of the longest run of class characters starting at offset from
\* (what a greedy [class]* consumes there).
RunLen(s, from, class) ==
    LET stops == {i \in (from + 1)..Len(s) : ~InClass(s[i], class)}
    IN  IF stops = {} THEN Max2(Len(s) - from, 0) ELSE Min(stops) - 1 - from

WordChars ==
    {"a","b","c","d","e","f","g","h","i","j","k","l","m","n","o","p","q","r",
     "s","t","u","v","w","x","y","z",
     "A","B","C","D","E","F","G","H","I","J","K","L","M","N","O","P","Q","R",
     "S","T","U","V","W","X","Y","Z",
     "0","1","2","3","4","5","6","7","8","9","_"}

Digits == {"0","1","2","3","4","5","6","7","8","9"}

SpaceChars == {" ", "\n", "\t", "\r", "\f"}

\* \w
Word == Class(WordChars)

\* \s
Space == Class(SpaceChars)

\* . (any character but a line terminator)
Dot == NotClass({"\n", "\r"})

\* [a-zA-Z0-9_-]
TagChar == Class(WordChars \cup {"-"})

IsSpace(c) == InClass(c, Space)

IsDot(c) == InClass(c, Dot)

\* s.trim()
Trim(s) ==
    LET lead == RunLen(s, 0, Space)
        keep == {i \in 1..Len(s) : ~IsSpace(s[i])}
    IN  IF keep = {} THEN <<>>
        ELSE SubSeq(s, lead + 1, CHOOSE i \in keep : \A j \in keep : j <= i)

RECURSIVE Concat(_)
\* parts.join('')
Concat(parts) ==
    IF parts = <<>> THEN <<>>
    ELSE IF Len(parts) = 1 THEN parts[1]
    ELSE Concat(SubSeq(parts, 1, Len(parts) \div 2))
         \o Concat(SubSeq(parts, Len(parts) \div 2 + 1, Len(parts)))

RECURSIVE Join(_, _)
\* parts.join(sep)
Join(parts, sep) ==
    IF parts = <<>> THEN <<>>
    ELSE IF Len(parts) = 1 THEN Head(parts)
    ELSE Head(parts) \o sep \o Join(Tail(parts), sep)

RECURSIVE Split(_, _)
\* s.split(c) for a one-character separator c
Split(s, c) ==
    LET i == SearchClass(s, Class({c}))
    IN  IF i = -1 THEN <<s>>
        ELSE <<Slice(s, 0, i)>> \o Split(Substring(s, i + 1), c)

RECURSIVE Repeat(_, _)
\* s.repeat(n)
Repeat(s, n) == IF n <= 0 THEN <<>> ELSE s \o Repeat(s, n - 1)

-----------------------------------------------------------------------------
(* LogseqParser: the matchers.  A matcher returns a token or Null.         *)

Null == [type |-> "null"]

IsNull(t) == t.type = "null"

NoMetadata == [none |-> TRUE]

\* /^FENCE(\w+)?\n([\s\S]*?)FENCE/ where FENCE is three backquotes
tryMatchCodeBlock(c, pos) ==
    LET remaining == Substring(c, pos)
        fence     == <<Backquote, Backquote, Backquote>>
        w         == RunLen(remaining, 3, Word)
        bodyStart == 3 + w + 1
        close     == IndexOfFrom(remaining, fence, bodyStart)
    IN  IF StartsWith(remaining, fence)
           /\ OccursAt(remaining, <<"\n">>, 3 + w)
           /\ close # -1
        THEN [type     |-> "codeBlock",
              value    |-> Slice(remaining, bodyStart, close),
              metadata |-> [language |-> Slice(remaining, 3, 3 + w)],
              length   |-> close + 3]
        ELSE Null

\* The shape /^\{\{keyword\s+([^}]+)\}\}/ shared by the macro matchers:
\* the offset of the closing braces, or -1 when the macro does not match.
MacroClose(remaining, keyword) ==
    LET open == <<"{", "{">> \o keyword
        k    == Len(open)
        run  == RunLen(remaining, k, NotClass({"}"}))
    IN  IF StartsWith(remaining, open)
           /\ k < Len(remaining) /\ IsSpace(remaining[k + 1])
           /\ run >= 2
           /\ OccursAt(remaining, <<"}", "}">>, k + run)
        THEN k + run
        ELSE -1

\* The group ([^}]+) of a macro: \s+ is greedy and gives one character back
\* when the whole argument is white space.
MacroArg(remaining, keyword) ==
    LET k     == Len(keyword) + 2
        close == MacroClose(remaining, keyword)
        ws    == RunLen(remaining, k, Space)
    IN  IF k + ws >= close THEN Slice(remaining, close - 1, close)
        ELSE Slice(remaining, k + ws, close)

HttpPrefix == <<"h","t","t","p",":","/","/">>

HttpsPrefix == <<"h","t","t","p","s",":","/","/">>

\* the test for any scheme, anywhere in s: s.includes('://')
IsUrlWithScheme(s) == IndexOf(s, <<":", "/", "/">>) # -1

\* /^https?:\/\//.test(s)
IsHttpUrl(s) == StartsWith(s, HttpPrefix) \/ StartsWith(s, HttpsPrefix)

\* s.search(/https?:\/\//)
SearchHttp(s) ==
    LET a == IndexOf(s, HttpPrefix)
        b == IndexOf(s, HttpsPrefix)
    IN  IF a = -1 THEN b ELSE IF b = -1 THEN a ELSE IF a < b THEN a ELSE b

YoutubeCom == <<"y","o","u","t","u","b","e",".","c","o","m">>

YoutuBe == <<"y","o","u","t","u",".","b","e">>

VimeoCom == <<"v","i","m","e","o",".","c","o","m">>

detectVideoType(url) ==
    IF Includes(url, YoutubeCom) \/ Includes(url, YoutuBe) THEN "youtube"
    ELSE IF Includes(url, VimeoCom) THEN "vimeo"
    ELSE "other"

\* undefined is the empty id: every use of videoId tests its truthiness.
extractVideoId(url, type) ==
    LET watch  == YoutubeCom \o <<"/","w","a","t","c","h","?","v","=">>
        short  == YoutuBe \o <<"/">>
        vimeo  == VimeoCom \o <<"/">>
        \* the leftmost offset at which either YouTube alternative matches
        starts == {i \in 0..Len(url) :
                      \/ /\ OccursAt(url, watch, i)
                         /\ RunLen(url, i + Len(watch), NotClass({"&", "?"})) >= 1
                      \/ /\ OccursAt(url, short, i)
                         /\ RunLen(url, i + Len(short), NotClass({"&", "?"})) >= 1}
        vstarts == {i \in 0..Len(url) :
                      /\ OccursAt(url, vimeo, i)
                      /\ RunLen(url, i + Len(vimeo), Class(Digits)) >= 1}
    IN  IF type = "youtube" THEN
            IF starts = {} THEN <<>>
            ELSE LET i    == Min(starts)
                     from == IF OccursAt(url, watch, i)
                                /\ RunLen(url, i + Len(watch), NotClass({"&", "?"})) >= 1
                             THEN i + Len(watch) ELSE i + Len(short)
                 IN  Slice(url, from, from + RunLen(url, from, NotClass({"&", "?"})))
        ELSE IF type = "vimeo" THEN
            IF vstarts = {} THEN <<>>
            ELSE LET from == Min(vstarts) + Len(vimeo)
                 IN  Slice(url, from, from + RunLen(url, from, Class(Digits)))
        ELSE <<>>

tryMatchVideoEmbed(remaining) ==
    LET video   == <<"v","i","d","e","o">>
        youtube == <<"y","o","u","t","u","b","e">>
        vimeo   == <<"v","i","m","e","o">>
        vClose  == MacroClose(remaining, video)
        vWs     == RunLen(remaining, 7, Space)
        vUrl    == Slice(remaining, 7 + vWs, vClose)
        \* https?:\/\/[^}]+ : a scheme and at least one more character
        vOk     == /\ vClose # -1
                   /\ \/ StartsWith(vUrl, HttpPrefix) /\ Len(vUrl) > Len(HttpPrefix)
                      \/ StartsWith(vUrl, HttpsPrefix) /\ Len(vUrl) > Len(HttpsPrefix)
        yId     == Trim(MacroArg(remaining, youtube))
        yUrl    == <<"h","t","t","p","s",":","/","/","w","w","w",".">> \o YoutubeCom
                   \o <<"/","w","a","t","c","h","?","v","=">> \o yId
        mId     == Trim(MacroArg(remaining, vimeo))
        mUrl    == HttpsPrefix \o VimeoCom \o <<"/">> \o mId
    IN  IF vOk THEN
            [type     |-> "videoEmbed",
             value    |-> vUrl,
             metadata |-> [linkTarget |-> vUrl,
                           videoType  |-> detectVideoType(vUrl),
                           videoId    |-> extractVideoId(vUrl, detectVideoType(vUrl))],
             length   |-> vClose + 2]
        ELSE IF MacroClose(remaining, youtube) # -1 THEN
            [type     |-> "videoEmbed",
             value    |-> yUrl,
             metadata |-> [linkTarget |-> yUrl, videoType |-> "youtube", videoId |-> yId],
             length   |-> MacroClose(remaining, youtube) + 2]
        ELSE IF MacroClose(remaining, vimeo) # -1 THEN
            [type     |-> "videoEmbed",
             value    |-> mUrl,
             metadata |-> [linkTarget |-> mUrl, videoType |-> "vimeo", videoId |-> mId],
             length   |-> MacroClose(remaining, vimeo) + 2]
        ELSE Null

tryMatchQuery(c, pos) ==
    LET remaining  == Substring(c, pos)
        query      == <<"q","u","e","r","y">>
        videoEmbed == tryMatchVideoEmbed(remaining)
    IN  IF ~IsNull(videoEmbed) THEN videoEmbed
        ELSE IF MacroClose(remaining, query) = -1 THEN Null
        ELSE [type     |-> "query",
              value    |-> MacroArg(remaining, query),
              metadata |-> NoMetadata,
              length   |-> MacroClose(remaining, query) + 2]

\* The alternatives of (TODO|DONE|DOING|LATER|NOW), in the order tried.
TaskKeywords ==
    << <<"T","O","D","O">>, <<"D","O","N","E">>, <<"D","O","I","N","G">>,
       <<"L","A","T","E","R">>, <<"N","O","W">> >>

TaskTypeName(i) == <<"TODO", "DONE", "DOING", "LATER", "NOW">>[i]

\* /^(TODO|DONE|DOING|LATER|NOW)\s+/ : the index of the keyword matched, or 0.
TaskKeywordAt(remaining) ==
    LET ok == {i \in 1..Len(TaskKeywords) :
                  /\ StartsWith(remaining, TaskKeywords[i])
                  /\ RunLen(remaining, Len(TaskKeywords[i]), Space) >= 1}
    IN  IF ok = {} THEN 0 ELSE Min(ok)

tryMatchTaskMarker(c, pos) ==
    LET remaining == Substring(c, pos)
        k         == TaskKeywordAt(remaining)
    IN  IF pos > 0 /\ c[pos] # "\n" THEN Null
        ELSE IF k = 0 THEN Null
        ELSE [type     |-> "taskMarker",
              value    |-> <<>>,
              metadata |-> [taskType |-> TaskTypeName(k)],
              length   |-> Len(TaskKeywords[k])
                           + RunLen(remaining, Len(TaskKeywords[k]), Space)]

\* tryMatchBlockquote with the line break after the quote counted into the
\* length of the token.
tryMatchBlockquoteEatsLineBreak(c, pos) ==
    LET remaining == Substring(c, pos)
        sp        == IF OccursAt(remaining, <<" ">>, 1) THEN 1 ELSE 0
        rest      == RunLen(remaining, 1 + sp, Dot)
    IN  IF pos > 0 /\ c[pos] # "\n" THEN Null
        ELSE IF ~StartsWith(remaining, <<">">>) THEN Null
        ELSE [type     |-> "blockquote",
              value    |-> Slice(remaining, 1 + sp, 1 + sp + rest),
              metadata |-> NoMetadata,
              length   |-> 1 + sp + rest + 1]

\* tryMatchBlockquote without the test for the start of a line
tryMatchBlockquoteAnywhere(c, pos) ==
    LET remaining == Substring(c, pos)
        sp        == IF OccursAt(remaining, <<" ">>, 1) THEN 1 ELSE 0
        rest      == RunLen(remaining, 1 + sp, Dot)
    IN  IF ~StartsWith(remaining, <<">">>) THEN Null
        ELSE [type     |-> "blockquote",
              value    |-> Slice(remaining, 1 + sp, 1 + sp + rest),
              metadata |-> NoMetadata,
              length   |-> 1 + sp + rest]

\* /^> ?(.*)/
tryMatchBlockquote(c, pos) ==
    LET remaining == Substring(c, pos)
        sp        == IF OccursAt(remaining, <<" ">>, 1) THEN 1 ELSE 0
        rest      == RunLen(remaining, 1 + sp, Dot)
    IN  IF pos > 0 /\ c[pos] # "\n" THEN Null
        ELSE IF ~StartsWith(remaining, <<">">>) THEN Null
        ELSE [type     |-> "blockquote",
              value    |-> Slice(remaining, 1 + sp, 1 + sp + rest),
              metadata |-> NoMetadata,
              length   |-> 1 + sp + rest]

\* The tail /\]\(([^)]+)\)/ of an image or a link, tried at offset at:
\* the length of the target when it matches, or 0.
TargetLen(remaining, at) ==
    LET run == RunLen(remaining, at + 2, NotClass({")"}))
    IN  IF OccursAt(remaining, <<"]", "(">>, at)
           /\ run >= 1
           /\ OccursAt(remaining, <<")">>, at + 2 + run)
        THEN run ELSE 0

\* /^!\[([^\]]*)\]\(([^)]+)\)/
tryMatchImage(c, pos) ==
    LET remaining == Substring(c, pos)
        alt       == RunLen(remaining, 2, NotClass({"]"}))
        tl        == TargetLen(remaining, 2 + alt)
        altText   == Slice(remaining, 2, 2 + alt)
        imageSrc  == Slice(remaining, 2 + alt + 2, 2 + alt + 2 + tl)
    IN  IF StartsWith(remaining, <<"!", "[">>) /\ tl >= 1
        THEN [type     |-> "image",
              value    |-> altText,
              metadata |-> [altText       |-> altText,
                            linkTarget    |-> imageSrc,
                            isExternalUrl |-> IsHttpUrl(imageSrc)],
              length   |-> 2 + alt + 2 + tl + 1]
        ELSE Null

\* /^\[([^\]]+)\]\(([^)]+)\)/
tryMatchMarkdownLink(c, pos) ==
    LET remaining  == Substring(c, pos)
        txt        == RunLen(remaining, 1, NotClass({"]"}))
        tl         == TargetLen(remaining, 1 + txt)
        linkText   == Slice(remaining, 1, 1 + txt)
        linkTarget == Slice(remaining, 1 + txt + 2, 1 + txt + 2 + tl)
    IN  IF StartsWith(remaining, <<"[">>) /\ txt >= 1 /\ tl >= 1
        THEN [type     |-> "markdownLink",
              value    |-> linkText,
              metadata |-> [linkText      |-> linkText,
                            linkTarget    |-> linkTarget,
                            isExternalUrl |-> IsHttpUrl(linkTarget)],
              length   |-> 1 + txt + 2 + tl + 1]
        ELSE Null

\* /^\[\[([^\]]+)\]\]/
tryMatchBlockRef(c, pos) ==
    LET remaining == Substring(c, pos)
        run       == RunLen(remaining, 2, NotClass({"]"}))
    IN  IF StartsWith(remaining, <<"[", "[">>) /\ run >= 1
           /\ OccursAt(remaining, <<"]", "]">>, 2 + run)
        THEN [type     |-> "blockRef",
              value    |-> Slice(remaining, 2, 2 + run),
              metadata |-> [linkTarget |-> Slice(remaining, 2, 2 + run)],
              length   |-> 2 + run + 2]
        ELSE Null

\* /^(https?:\/\/[^\s)\]]+)/
tryMatchNakedUrl(c, pos) ==
    LET remaining == Substring(c, pos)
        scheme    == IF StartsWith(remaining, HttpPrefix) THEN Len(HttpPrefix)
                     ELSE IF StartsWith(remaining, HttpsPrefix) THEN Len(HttpsPrefix)
                     ELSE 0
        run       == RunLen(remaining, scheme, NotClass(SpaceChars \cup {")", "]"}))
    IN  IF scheme > 0 /\ run >= 1
        THEN [type     |-> "nakedUrl",
              value    |-> Slice(remaining, 0, scheme + run),
              metadata |-> [linkTarget    |-> Slice(remaining, 0, scheme + run),
                            isExternalUrl |-> TRUE],
              length   |-> scheme + run]
        ELSE Null

\* The shape /^dd([^d]+)dd/ of highlight (d is =) and bold (d is * ).
tryMatchDelimited(c, pos, d, type) ==
    LET remaining == Substring(c, pos)
        run       == RunLen(remaining, 2, NotClass({d}))
    IN  IF StartsWith(remaining, <<d, d>>) /\ run >= 1
           /\ OccursAt(remaining, <<d, d>>, 2 + run)
        THEN [type     |-> type,
              value    |-> Slice(remaining, 2, 2 + run),
              metadata |-> NoMetadata,
              length   |-> 2 + run + 2]
        ELSE Null

\* /^==([^=]+)==/
tryMatchHighlight(c, pos) == tryMatchDelimited(c, pos, "=", "highlight")

\* /^\*\*([^*]+)\*\*/
tryMatchBold(c, pos) == tryMatchDelimited(c, pos, "*", "bold")

\* /^#([a-zA-Z0-9_-]+)/
tryMatchTag(c, pos) ==
    LET remaining == Substring(c, pos)
        run       == RunLen(remaining, 1, TagChar)
    IN  IF StartsWith(remaining, <<"#">>) /\ run >= 1
        THEN [type     |-> "tag",
              value    |-> Slice(remaining, 1, 1 + run),
              metadata |-> NoMetadata,
              length   |-> 1 + run]
        ELSE Null

\* the class of [ # = * { ! and the backquote
SpecialChar == Class({"[", "#", "=", "*", Backquote, "{", "!"})

IsSpecialChar(x) == InClass(x, SpecialChar)

TextToken(remaining, length) ==
    [type     |-> "text",
     value    |-> Slice(remaining, 0, length),
     metadata |-> NoMetadata,
     length   |-> length]

\* matchText without Math.max(1, ...): the run ends at the next special
\* character even when that is the character at pos.
matchTextNoMinimum(c, pos) ==
    LET remaining         == Substring(c, pos)
        special           == SearchClass(remaining, SpecialChar)
        urlStart          == SearchHttp(remaining)
        withUrl           == IF urlStart # -1 /\ (special = -1 \/ urlStart < special)
                             THEN urlStart ELSE special
        newlineBlockquote == IndexOf(remaining, <<"\n", ">">>)
        nextSpecial       == IF newlineBlockquote # -1
                                /\ (withUrl = -1 \/ newlineBlockquote + 1 < withUrl)
                             THEN newlineBlockquote + 1 ELSE withUrl
    IN  TextToken(remaining, IF nextSpecial = -1 THEN Len(remaining) ELSE nextSpecial)

matchText(c, pos) ==
    LET remaining         == Substring(c, pos)
        atLineStart       == pos = 0 \/ c[pos] = "\n"
        taskMarkerAtStart == atLineStart /\ TaskKeywordAt(remaining) # 0
        blockquoteAtStart == atLineStart /\ StartsWith(remaining, <<">">>)
        special           == SearchClass(remaining, SpecialChar)
        urlStart          == SearchHttp(remaining)
        withUrl           == IF urlStart # -1 /\ (special = -1 \/ urlStart < special)
                             THEN urlStart ELSE special
        newlineBlockquote == IndexOf(remaining, <<"\n", ">">>)
        nextSpecial       == IF newlineBlockquote # -1
                                /\ (withUrl = -1 \/ newlineBlockquote + 1 < withUrl)
                             THEN newlineBlockquote + 1 ELSE withUrl
    IN  IF taskMarkerAtStart THEN
            TextToken(remaining,
                      IF special = -1 THEN Len(remaining) ELSE Max2(1, special))
        ELSE IF blockquoteAtStart THEN
            TextToken(remaining, 0)
        ELSE
            TextToken(remaining,
                      IF nextSpecial = -1 THEN Len(remaining) ELSE Max2(1, nextSpecial))

\* a || b
OrElse(a, b) == IF ~IsNull(a) THEN a ELSE b

\* The token of one iteration when text is tried before the tag matcher.
NextTokenTextBeforeTag(c, pos) ==
    OrElse(tryMatchCodeBlock(c, pos),
    OrElse(tryMatchQuery(c, pos),
    OrElse(tryMatchTaskMarker(c, pos),
    OrElse(tryMatchBlockquote(c, pos),
    OrElse(tryMatchImage(c, pos),
    OrElse(tryMatchMarkdownLink(c, pos),
    OrElse(tryMatchBlockRef(c, pos),
    OrElse(tryMatchNakedUrl(c, pos),
    OrElse(tryMatchHighlight(c, pos),
    OrElse(tryMatchBold(c, pos),
           matchText(c, pos)))))))))))

\* The token of one iteration of the scan loop of parse.
NextToken(c, pos) ==
    OrElse(tryMatchCodeBlock(c, pos),
    OrElse(tryMatchQuery(c, pos),
    OrElse(tryMatchTaskMarker(c, pos),
    OrElse(tryMatchBlockquote(c, pos),
    OrElse(tryMatchImage(c, pos),
    OrElse(tryMatchMarkdownLink(c, pos),
    OrElse(tryMatchBlockRef(c, pos),
    OrElse(tryMatchNakedUrl(c, pos),
    OrElse(tryMatchHighlight(c, pos),
    OrElse(tryMatchBold(c, pos),
    OrElse(tryMatchTag(c, pos),
           matchText(c, pos))))))))))))

RECURSIVE ParseFrom(_, _, _)
\* tokens.push(token); position += token.length; and the iterations after it
ParsePush(c, pos, toks, token) ==
    ParseFrom(c, pos + token.length, Append(toks, token))

\* the while loop of parse from position pos on: the tokens it ends with
ParseFrom(c, pos, toks) ==
    IF pos < Len(c) THEN ParsePush(c, pos, toks, NextToken(c, pos)) ELSE toks

\* LogseqParser.parse(content)
Parse(c) == ParseFrom(c, 0, <<>>)

-----------------------------------------------------------------------------
(* The tokenizer as a state machine: one action per iteration of the scan  *)
(* loop of parse, one for leaving the loop and returning the tokens.       *)

\* The fragments tokenizer inputs are built from: each holds what one matcher
\* needs to start, to go on or to end.
ParserFragments ==
    { <<"T","O","D","O">>, <<" ">>, <<"\n">>, <<">">>, <<"a">>,
      <<"[">>, <<"[","a","]">>, <<"]">>, <<"(","x",")">>,
      <<"(","h","t","t","p",":","/","/","x",")">>, <<"!">>,
      <<"=","=">>, <<"*","*">>, <<"#">>,
      <<Backquote, Backquote, Backquote>>,
      <<"{","{","q","u","e","r","y"," ">>,
      <<"{","{","y","o","u","t","u","b","e"," ">>,
      <<"{","{","v","i","d","e","o"," ","h","t","t","p",":","/","/">>,
      <<"}","}">>, <<"h","t","t","p",":","/","/">> }

RECURSIVE FragmentStrings(_)
\* The concatenations of at most n fragments.
FragmentStrings(n) ==
    IF n = 0 THEN {<<>>}
    ELSE FragmentStrings(n - 1)
         \cup {f \o s : f \in ParserFragments, s \in FragmentStrings(n - 1)}

ParserInputs == FragmentStrings(MaxFrags)

NoBlock == [uuid |-> <<>>, content |-> <<>>, children |-> <<>>, properties |-> <<>>]

\* an absent maxDepth
NoMaxDepth == [set |-> FALSE, value |-> 0]

NoOptions == [includeChildren |-> FALSE, includeProperties |-> FALSE,
              maxDepth |-> NoMaxDepth]

NoResult == [format |-> "none"]

InitParse ==
    /\ content \in ParserInputs
    /\ position = 0
    /\ tokens = <<>>
    /\ parsed = FALSE
    /\ block = NoBlock
    /\ options = NoOptions
    /\ result = NoResult
    /\ listDepthOffset = Null
    /\ enteredWith = Null
    /\ CallsIdle

\* while (position < content.length) { token = ...; push; position += length }
ParseLoop ==
    /\ ~parsed
    /\ position < Len(content)
    /\ LET token == NextToken(content, position)
       IN  /\ tokens' = Append(tokens, token)
           /\ position' = position + token.length
    /\ UNCHANGED <<content, parsed>>
    /\ UNCHANGED converterVars
    /\ UNCHANGED callVars

\* return tokens
ParseReturn ==
    /\ ~parsed
    /\ ~(position < Len(content))
    /\ parsed' = TRUE
    /\ UNCHANGED <<content, position, tokens>>
    /\ UNCHANGED converterVars
    /\ UNCHANGED callVars

NextParse == ParseLoop \/ ParseReturn

SpecParse == InitParse /\ [][NextParse]_vars

-----------------------------------------------------------------------------
(* Claims about the tokenizer.                                             *)

TokenTypes ==
    {"text", "blockRef", "markdownLink", "nakedUrl", "image", "videoEmbed", "tag",
     "highlight", "bold", "codeBlock", "query", "taskMarker", "blockquote"}

RECURSIVE SumLengths(_)
SumLengths(toks) ==
    IF toks = <<>> THEN 0 ELSE Head(toks).length + SumLengths(Tail(toks))

\* The offset at which token i starts when every token starts where the one
\* before it ended.
TokenStart(toks, i) == SumLengths(SubSeq(toks, 1, i - 1))

\* C1: the tokens of parse(C) lie end to end in C: during the scan the
\* lengths of the tokens pushed so far sum to the scan position, which never
\* passes the end of C, every text token holds exactly the characters of the
\* span it covers, and the returned tokens' lengths sum to len(C).
C1_TokensCoverContent ==
    /\ SumLengths(tokens) = position
    /\ position <= Len(content)
    /\ \A i \in 1..Len(tokens) :
          /\ TokenStart(tokens, i) + tokens[i].length <= Len(content)
          /\ tokens[i].type = "text" =>
                tokens[i].value = Slice(content, TokenStart(tokens, i),
                                        TokenStart(tokens, i) + tokens[i].length)
    /\ parsed => SumLengths(tokens) = Len(content)

\* A returned token sequence of at least three tokens, a blockquote last.
C1_Witness ==
    /\ parsed
    /\ Len(tokens) >= 3
    /\ tokens[Len(tokens)].type = "blockquote"
    /\ tokens[1].type = "text"

\* C2: every iteration of the scan loop pushes one token of a known type and
\* of length >= 1 and moves the scan position strictly forward, never past
\* len(C); the only other step leaves the loop with position = len(C).
C2_ScanProgress ==
    [][ /\ ~parsed
        /\ parsed' = (position = Len(content))
        /\ ~parsed' =>
              /\ Len(tokens') = Len(tokens) + 1
              /\ SubSeq(tokens', 1, Len(tokens)) = tokens
              /\ tokens'[Len(tokens')].type \in TokenTypes
              /\ tokens'[Len(tokens')].length >= 1
              /\ position' = position + tokens'[Len(tokens')].length
              /\ position' > position
              /\ position' <= Len(content)
        /\ parsed' => tokens' = tokens /\ Len(tokens) <= Len(content) ]_vars

\* The fallback matcher met a special character that starts no token and
\* returned it as a text run of the minimum length 1.
C2_Witness ==
    /\ parsed
    /\ \E i \in 1..Len(tokens) :
          /\ tokens[i].type = "text"
          /\ tokens[i].length = 1
          /\ IsSpecialChar(tokens[i].value[1])

-----------------------------------------------------------------------------
(* The generators: tokens to text.  A code point outside ASCII is one      *)
(* symbol of the output, written as a name in parentheses.                 *)

EmojiDoing == "(doing)"

EmojiLater == "(later)"

EmojiNow == "(now)"

PlaySymbol == "(play)"

ArrowSymbol == "(arrow)"

\* altText || 'no description'
AltOrDefault(altText) == IF altText = <<>> THEN <<"n","o"," ","d","e","s","c","r","i","p","t","i","o","n">> ELSE altText

(* AsciiDocGenerator *)

AdocGenerateImage(token) ==
    IF token.metadata.isExternalUrl
    THEN <<"i","m","a","g","e",":",":">> \o token.metadata.linkTarget \o <<"[">> \o token.metadata.altText \o <<"]">>
    ELSE <<"*","[","I","m","a","g","e",":"," ">> \o AltOrDefault(token.metadata.altText) \o <<"]","*"," ","(","l","o","c","a","l"," ","f","i","l","e",":"," ">>
         \o token.metadata.linkTarget \o <<")">>

AdocGenerateVideoEmbed(token) ==
    IF token.metadata.videoType = "youtube" /\ token.metadata.videoId # <<>>
    THEN <<"v","i","d","e","o",":",":">> \o token.metadata.videoId \o <<"[","y","o","u","t","u","b","e","]">>
    ELSE IF token.metadata.videoType = "vimeo" /\ token.metadata.videoId # <<>>
    THEN <<"v","i","d","e","o",":",":">> \o token.metadata.videoId \o <<"[","v","i","m","e","o","]">>
    ELSE token.metadata.linkTarget \o <<"[">> \o <<PlaySymbol>> \o <<" ","V","i","d","e","o","]">>

\* linkText || token.value: both are the same group of the match, never empty.
AdocGenerateLink(token) ==
    IF token.metadata.isExternalUrl
    THEN token.metadata.linkTarget \o <<"[">> \o token.metadata.linkText \o <<"]">>
    ELSE <<"*">> \o token.metadata.linkText \o <<"*"," ","(">> \o <<ArrowSymbol>> \o <<" ">> 
         \o token.metadata.linkTarget \o <<")">>

AdocGenerateCodeBlock(token) ==
    (IF token.metadata.language # <<>>
     THEN <<"[","s","o","u","r","c","e",",">> \o token.metadata.language \o <<"]">>
     ELSE <<"[","s","o","u","r","c","e","]">>)
    \o <<"\n","-","-","-","-","\n">> \o Trim(token.value) \o <<"\n","-","-","-","-">>

AdocGenerateTaskMarker(token) ==
    CASE token.metadata.taskType = "TODO"  -> <<"*"," ","["," ","]"," ">>
      [] token.metadata.taskType = "DONE"  -> <<"*"," ","[","x","]"," ">>
      [] token.metadata.taskType = "DOING" -> <<"*"," ","["," ","]"," ">> \o <<EmojiDoing, " ">>
      [] token.metadata.taskType = "LATER" -> <<"*"," ","["," ","]"," ">> \o <<EmojiLater, " ">>
      [] token.metadata.taskType = "NOW"   -> <<"*"," ","["," ","]"," ">> \o <<EmojiNow, " ">>
      [] OTHER -> <<"*"," ","["," ","]"," ">>

\* The group (.+) after /-\s*/ at the end of a pattern anchored by $, for the
\* text after the dash: \s* is greedy and gives one character back when
\* nothing else is left.  Empty when (.+) cannot match.
AuthorGroup(rest) ==
    LET ws == RunLen(rest, 0, Space)
    IN  IF RunLen(rest, 0, Dot) < Len(rest) THEN <<>>
        ELSE IF ws < Len(rest) THEN Substring(rest, ws)
        ELSE IF Len(rest) >= 1 THEN Substring(rest, Len(rest) - 1)
        ELSE <<>>

\* /^"(.+?)"\s*-\s*(.+)$/ : the length of the lazy group (.+?), or 0.
QuotedSplit(s) ==
    LET ok == {k \in 1..Len(s) :
                  /\ RunLen(s, 1, Dot) >= k
                  /\ OccursAt(s, <<"\"">>, k + 1)
                  /\ OccursAt(s, <<"-">>, k + 2 + RunLen(s, k + 2, Space))
                  /\ AuthorGroup(Substring(s, k + 3 + RunLen(s, k + 2, Space))) # <<>>}
    IN  IF StartsWith(s, <<"\"">>) /\ ok # {} THEN Min(ok) ELSE 0

\* /^(.+)\s*-\s*(.+)$/ : the length of a greedy first group, or 0.
SimpleSplitGreedy(s) ==
    LET ok == {k \in 1..Len(s) :
                  /\ RunLen(s, 0, Dot) >= k
                  /\ OccursAt(s, <<"-">>, k)
                  /\ Len(s) > k + 1}
    IN  IF ok # {} THEN CHOOSE k \in ok : \A j \in ok : j <= k ELSE 0

\* /^(.+?)\s*-\s*(.+)$/ : the length of the lazy group (.+?), or 0.
SimpleSplit(s) ==
    LET ok == {k \in 1..Len(s) :
                  /\ RunLen(s, 0, Dot) >= k
                  /\ OccursAt(s, <<"-">>, k + RunLen(s, k, Space))
                  /\ AuthorGroup(Substring(s, k + 1 + RunLen(s, k, Space))) # <<>>}
    IN  IF ok # {} THEN Min(ok) ELSE 0

AttributedQuote(quote, author) ==
    <<"\n","\"">> \o quote \o <<"\"","\n","-","-"," ">> \o author \o <<"\n">>

AdocGenerateBlockquote(token) ==
    LET q       == token.value
        k1      == QuotedSplit(q)
        author1 == AuthorGroup(Substring(q, k1 + 3 + RunLen(q, k1 + 2, Space)))
        k2      == SimpleSplit(q)
        potentialQuote  == Trim(Slice(q, 0, k2))
        potentialAuthor == Trim(AuthorGroup(Substring(q, k2 + 1 + RunLen(q, k2, Space))))
    IN  IF k1 # 0 THEN AttributedQuote(Slice(q, 1, 1 + k1), author1)
        ELSE IF k2 # 0 /\ Len(potentialAuthor) < 50
                /\ Len(potentialQuote) > Len(potentialAuthor)
        THEN AttributedQuote(potentialQuote, potentialAuthor)
        ELSE <<"\"">> \o q \o <<"\"">>

AdocGenerateToken(token) ==
    CASE token.type = "text" ->
            IF token.value = <<"\n">> THEN <<>> ELSE token.value
      [] token.type = "blockRef"     -> <<"*">> \o token.value \o <<"*">>
      [] token.type = "markdownLink" -> AdocGenerateLink(token)
      [] token.type = "nakedUrl"     -> token.value
      [] token.type = "image"        -> AdocGenerateImage(token)
      [] token.type = "videoEmbed"   -> AdocGenerateVideoEmbed(token)
      [] token.type = "tag"          -> <<"*">> \o token.value \o <<"*">>
      [] token.type = "highlight"    -> <<"#">> \o token.value \o <<"#">>
      [] token.type = "bold"         -> <<"*">> \o token.value \o <<"*">>
      [] token.type = "codeBlock"    -> AdocGenerateCodeBlock(token)
      [] token.type = "query"        -> <<"Q","u","e","r","y",":"," ">> \o token.value
      [] token.type = "taskMarker"   -> AdocGenerateTaskMarker(token)
      [] token.type = "blockquote"   -> AdocGenerateBlockquote(token)
      [] OTHER -> token.value

\* AsciiDocGenerator.generate(tokens)
AdocGenerate(toks) == Concat([i \in 1..Len(toks) |-> AdocGenerateToken(toks[i])])

(* MarkdownGenerator *)

MdGenerateImage(token) ==
    IF token.metadata.isExternalUrl
    THEN <<"!","[">> \o token.metadata.altText \o <<"]","(">> \o token.metadata.linkTarget \o <<")">>
    ELSE <<"*","*","[","I","m","a","g","e",":"," ">> \o AltOrDefault(token.metadata.altText) \o <<"]","*","*"," ","(","l","o","c","a","l"," ","f","i","l","e",":"," ">>
         \o token.metadata.linkTarget \o <<")">>

MdGenerateVideoEmbed(token) ==
    IF token.metadata.videoType = "youtube" /\ token.metadata.videoId # <<>>
    THEN <<"[">> \o <<PlaySymbol>> \o <<" ","Y","o","u","T","u","b","e"," ","V","i","d","e","o","]","(","h","t","t","p","s",":","/","/","w","w","w",".","y","o","u","t","u","b","e",".","c","o","m","/","w","a","t","c","h","?","v","=">>
         \o token.metadata.videoId \o <<")">>
    ELSE IF token.metadata.videoType = "vimeo" /\ token.metadata.videoId # <<>>
    THEN <<"[">> \o <<PlaySymbol>> \o <<" ","V","i","m","e","o"," ","V","i","d","e","o","]","(","h","t","t","p","s",":","/","/","v","i","m","e","o",".","c","o","m","/">>
         \o token.metadata.videoId \o <<")">>
    ELSE <<"[">> \o <<PlaySymbol>> \o <<" ","V","i","d","e","o","]","(">> \o token.metadata.linkTarget \o <<")">>

MdGenerateLink(token) ==
    IF token.metadata.isExternalUrl
    THEN <<"[">> \o token.metadata.linkText \o <<"]","(">> \o token.metadata.linkTarget \o <<")">>
    ELSE <<"*","*">> \o token.metadata.linkText \o <<"*","*"," ","(">> \o <<ArrowSymbol>> \o <<" ">>
         \o token.metadata.linkTarget \o <<")">>

MdGenerateCodeBlock(token) ==
    <<Backquote,Backquote,Backquote>> \o token.metadata.language \o <<"\n">> \o token.value \o <<Backquote,Backquote,Backquote>>

MdGenerateTaskMarker(token) ==
    CASE token.metadata.taskType = "TODO"  -> <<"-"," ","["," ","]"," ">>
      [] token.metadata.taskType = "DONE"  -> <<"-"," ","[","x","]"," ">>
      [] token.metadata.taskType = "DOING" -> <<"-"," ","["," ","]"," ">> \o <<EmojiDoing, " ">>
      [] token.metadata.taskType = "LATER" -> <<"-"," ","["," ","]"," ">> \o <<EmojiLater, " ">>
      [] token.metadata.taskType = "NOW"   -> <<"-"," ","["," ","]"," ">> \o <<EmojiNow, " ">>
      [] OTHER -> <<"-"," ","["," ","]"," ">>

MdGenerateToken(token) ==
    CASE token.type = "text"         -> token.value
      [] token.type = "blockRef"     -> <<"*","*">> \o token.value \o <<"*","*">>
      [] token.type = "markdownLink" -> MdGenerateLink(token)
      [] token.type = "nakedUrl"     -> token.value
      [] token.type = "image"        -> MdGenerateImage(token)
      [] token.type = "videoEmbed"   -> MdGenerateVideoEmbed(token)
      [] token.type = "tag"          -> <<"*","*">> \o token.value \o <<"*","*">>
      [] token.type = "highlight"    -> <<"<","m","a","r","k",">">> \o token.value \o <<"<","/","m","a","r","k",">">>
      [] token.type = "bold"         -> <<"*","*">> \o token.value \o <<"*","*">>
      [] token.type = "codeBlock"    -> MdGenerateCodeBlock(token)
      [] token.type = "query"        -> <<"Q","u","e","r","y",":"," ">> \o token.value
      [] token.type = "taskMarker"   -> MdGenerateTaskMarker(token)
      [] token.type = "blockquote"   -> <<">"," ">> \o token.value
      [] OTHER -> token.value

\* MarkdownGenerator.generate(tokens)
MdGenerate(toks) == Concat([i \in 1..Len(toks) |-> MdGenerateToken(toks[i])])

(* HtmlGenerator *)

EscapeChar(c) ==
    CASE c = "&"  -> <<"&","a","m","p",";">>
      [] c = "<"  -> <<"&","l","t",";">>
      [] c = ">"  -> <<"&","g","t",";">>
      [] c = "\"" -> <<"&","q","u","o","t",";">>
      [] c = "'"  -> <<"&","#","0","3","9",";">>
      [] OTHER    -> <<c>>

\* escapeHtml without the replacements of the two quotes
escapeHtmlKeepingQuotes(text) ==
    Concat([i \in 1..Len(text) |->
               IF text[i] \in {"\"", "'"} THEN <<text[i]>> ELSE EscapeChar(text[i])])

\* escapeHtml(text): the five replacements, & first, so that no entity
\* written by a later replacement is escaped again.
escapeHtml(text) == Concat([i \in 1..Len(text) |-> EscapeChar(text[i])])

HtmlGenerateImage(token) ==
    IF token.metadata.isExternalUrl
    THEN <<"<","i","m","g"," ","s","r","c","=","\"">> \o escapeHtml(token.metadata.linkTarget) \o <<"\""," ","a","l","t","=","\"">>
         \o escapeHtml(token.metadata.altText) \o <<"\""," ","/",">">>
    ELSE <<"<","s","t","r","o","n","g",">","[","I","m","a","g","e",":"," ">> \o escapeHtml(AltOrDefault(token.metadata.altText))
         \o <<"]","<","/","s","t","r","o","n","g",">"," ","<","e","m",">","(","l","o","c","a","l"," ","f","i","l","e",":"," ">> \o escapeHtml(token.metadata.linkTarget)
         \o <<")","<","/","e","m",">">>

HtmlGenerateVideoEmbed(token) ==
    IF token.metadata.videoType = "youtube" /\ token.metadata.videoId # <<>>
    THEN <<"<","i","f","r","a","m","e"," ","w","i","d","t","h","=","\"","5","6","0","\""," ","h","e","i","g","h","t","=","\"","3","1","5","\""," ","s","r","c","=","\"","h","t","t","p","s",":","/","/","w","w","w",".","y","o","u","t","u","b","e",".","c","o","m","/","e","m","b","e","d","/">>
         \o escapeHtml(token.metadata.videoId)
         \o <<"\""," ","f","r","a","m","e","b","o","r","d","e","r","=","\"","0","\""," ","a","l","l","o","w","f","u","l","l","s","c","r","e","e","n",">","<","/","i","f","r","a","m","e",">">>
    ELSE IF token.metadata.videoType = "vimeo" /\ token.metadata.videoId # <<>>
    THEN <<"<","i","f","r","a","m","e"," ","s","r","c","=","\"","h","t","t","p","s",":","/","/","p","l","a","y","e","r",".","v","i","m","e","o",".","c","o","m","/","v","i","d","e","o","/">>
         \o escapeHtml(token.metadata.videoId)
         \o <<"\""," ","w","i","d","t","h","=","\"","5","6","0","\""," ","h","e","i","g","h","t","=","\"","3","1","5","\""," ","f","r","a","m","e","b","o","r","d","e","r","=","\"","0","\""," ","a","l","l","o","w","f","u","l","l","s","c","r","e","e","n",">","<","/","i","f","r","a","m","e",">">>
    ELSE <<"<","a"," ","h","r","e","f","=","\"">> \o escapeHtml(token.metadata.linkTarget) \o <<"\"",">">>
         \o <<PlaySymbol>> \o <<" ","V","i","d","e","o","<","/","a",">">>

HtmlGenerateLink(token) ==
    IF token.metadata.isExternalUrl
    THEN <<"<","a"," ","h","r","e","f","=","\"">> \o escapeHtml(token.metadata.linkTarget) \o <<"\"",">">>
         \o escapeHtml(token.metadata.linkText) \o <<"<","/","a",">">>
    ELSE <<"<","s","t","r","o","n","g",">">> \o escapeHtml(token.metadata.linkText) \o <<"<","/","s","t","r","o","n","g",">"," ","<","e","m",">","(">>
         \o <<ArrowSymbol>> \o <<" ">> \o escapeHtml(token.metadata.linkTarget) \o <<")","<","/","e","m",">">>

HtmlGenerateCodeBlock(token) ==
    <<"<","p","r","e",">","<","c","o","d","e">>
    \o (IF token.metadata.language # <<>>
        THEN <<" ","c","l","a","s","s","=","\"","l","a","n","g","u","a","g","e","-">> \o escapeHtml(token.metadata.language) \o <<"\"">>
        ELSE <<>>)
    \o <<">">> \o escapeHtml(token.value) \o <<"<","/","c","o","d","e",">","<","/","p","r","e",">">>

getTaskEmoji(taskType) ==
    CASE taskType = "DOING" -> <<EmojiDoing>>
      [] taskType = "LATER" -> <<EmojiLater>>
      [] taskType = "NOW"   -> <<EmojiNow>>
      [] OTHER -> <<>>

HtmlGenerateTaskMarker(token) ==
    <<"<","i","n","p","u","t"," ","t","y","p","e","=","\"","c","h","e","c","k","b","o","x","\"">>
    \o (IF token.metadata.taskType = "DONE" THEN <<" ","c","h","e","c","k","e","d">> ELSE <<>>)
    \o <<" ","d","i","s","a","b","l","e","d"," ","/",">"," ">> \o getTaskEmoji(token.metadata.taskType)

HtmlGenerateToken(token) ==
    CASE token.type = "text"         -> escapeHtml(token.value)
      [] token.type = "blockRef"     -> <<"<","s","t","r","o","n","g",">">> \o escapeHtml(token.value) \o <<"<","/","s","t","r","o","n","g",">">>
      [] token.type = "markdownLink" -> HtmlGenerateLink(token)
      [] token.type = "nakedUrl"     ->
            <<"<","a"," ","h","r","e","f","=","\"">> \o escapeHtml(token.value) \o <<"\"",">">> \o escapeHtml(token.value) \o <<"<","/","a",">">>
      [] token.type = "image"        -> HtmlGenerateImage(token)
      [] token.type = "videoEmbed"   -> HtmlGenerateVideoEmbed(token)
      [] token.type = "tag"          -> <<"<","s","t","r","o","n","g",">">> \o escapeHtml(token.value) \o <<"<","/","s","t","r","o","n","g",">">>
      [] token.type = "highlight"    -> <<"<","m","a","r","k",">">> \o escapeHtml(token.value) \o <<"<","/","m","a","r","k",">">>
      [] token.type = "bold"         -> <<"<","s","t","r","o","n","g",">">> \o escapeHtml(token.value) \o <<"<","/","s","t","r","o","n","g",">">>
      [] token.type = "codeBlock"    -> HtmlGenerateCodeBlock(token)
      [] token.type = "query"        -> <<"<","e","m",">","Q","u","e","r","y",":"," ">> \o escapeHtml(token.value) \o <<"<","/","e","m",">">>
      [] token.type = "taskMarker"   -> HtmlGenerateTaskMarker(token)
      [] token.type = "blockquote"   ->
            <<"<","b","l","o","c","k","q","u","o","t","e",">">> \o escapeHtml(token.value) \o <<"<","/","b","l","o","c","k","q","u","o","t","e",">">>
      [] OTHER -> escapeHtml(token.value)

\* HtmlGenerator.generate(tokens)
HtmlGenerate(toks) == Concat([i \in 1..Len(toks) |-> HtmlGenerateToken(toks[i])])

-----------------------------------------------------------------------------
(* Blocks, options and results.                                            *)
(*                                                                         *)
(* A block is [uuid, content, children, properties]; the uuid of a block   *)
(* is its path from the root (<<>> the root, <<2,1>> the first child of    *)
(* the second child), so its length is the true depth of the block.        *)
(* properties is the ordered map as a sequence of [key, value] entries.    *)
(* options.maxDepth is [set, value]: set is FALSE for an absent maxDepth.  *)
(*                                                                         *)
(* An output is kept as the pieces it was assembled from, each with the    *)
(* uuid of the block whose visit wrote it (src) and what it is (kind:      *)
(* "content", "properties" or "markup"); result.content is their texts     *)
(* joined the way the converter joins them.                                *)

Number(n) == [type |-> "number", value |-> n]

\* options.maxDepth && depth > options.maxDepth
BeyondMaxDepth(opts, depth) ==
    opts.maxDepth.set /\ opts.maxDepth.value # 0 /\ depth > opts.maxDepth.value

Piece(b, kind, text) == [src |-> b.uuid, kind |-> kind, text |-> text]

Texts(pieces) == [i \in 1..Len(pieces) |-> pieces[i].text]

\* !content || content.trim() === ''
IsBlank(c) == Trim(c) = <<>>

\* /^#{1,6}\s/ and /^#{1,6}\s+/ : they match the same lines.
isHeading(line) ==
    LET h == RunLen(line, 0, Class({"#"}))
    IN  h >= 1 /\ h <= 6 /\ h < Len(line) /\ IsSpace(line[h + 1])

\* /^(#{1,6})\s+(.+)/ : [level, text] of the match, level 0 when there is none.
\* \s+ is greedy and gives characters back until (.+) finds one to match.
HeadingMatch(line) ==
    LET h     == RunLen(line, 0, Class({"#"}))
        after == Substring(line, h)
        ws    == RunLen(after, 0, Space)
        js    == {j \in 1..ws : j < Len(after) /\ IsDot(after[j + 1])}
        j     == CHOOSE x \in js : \A y \in js : y <= x
    IN  IF h >= 1 /\ h <= 6 /\ js # {}
        THEN [level |-> h, text |-> Slice(after, j, j + RunLen(after, j, Dot))]
        ELSE [level |-> 0, text |-> <<>>]

RECURSIVE MdCountBlocks(_, _)
\* MarkdownConverter.countBlocks(block, options)
MdCountBlocks(b, opts) ==
    LET RECURSIVE Over(_)
        Over(children) ==
            IF children = <<>> THEN 0
            ELSE MdCountBlocks(Head(children), opts) + Over(Tail(children))
    IN  1 + (IF opts.includeChildren THEN Over(b.children) ELSE 0)

\* countBlocks counting only the blocks processBlock does not skip
CountBlocksWithinMaxDepth(b, opts) ==
    LET RECURSIVE Count(_)
        Count(x) ==
            LET RECURSIVE Over(_)
                Over(children) ==
                    IF children = <<>> THEN 0
                    ELSE Count(Head(children)) + Over(Tail(children))
            IN  IF BeyondMaxDepth(opts, Len(x.uuid)) THEN 0
                ELSE 1 + (IF opts.includeChildren THEN Over(x.children) ELSE 0)
    IN  Count(b)

RECURSIVE AdocCountBlocks(_, _)
\* AsciiDocConverter.countBlocks(block, options)
AdocCountBlocks(b, opts) ==
    LET RECURSIVE Over(_)
        Over(children) ==
            IF children = <<>> THEN 0
            ELSE AdocCountBlocks(Head(children), opts) + Over(Tail(children))
    IN  1 + (IF opts.includeChildren THEN Over(b.children) ELSE 0)

RECURSIVE HtmlCountBlocks(_, _)
\* HtmlConverter.countBlocks(block, options)
HtmlCountBlocks(b, opts) ==
    LET RECURSIVE Over(_)
        Over(children) ==
            IF children = <<>> THEN 0
            ELSE HtmlCountBlocks(Head(children), opts) + Over(Tail(children))
    IN  1 + (IF opts.includeChildren THEN Over(b.children) ELSE 0)

\* the entries of properties, those with a null value too
ListedPropertiesAll(properties) == properties

RECURSIVE ListedProperties(_)
\* value !== null && value !== undefined; a value is [isNull, text].
ListedProperties(properties) ==
    IF properties = <<>> THEN <<>>
    ELSE (IF Head(properties).value.isNull THEN <<>> ELSE <<Head(properties)>>)
         \o ListedProperties(Tail(properties))

-----------------------------------------------------------------------------
(* MarkdownConverter *)

MdConvertLogseqSyntax(c) == MdGenerate(Parse(c))

\* lines.slice(1).map((line, index) => ...) of the multi-line branch
MdRemainingLine(lines, index, indent) ==
    LET line             == lines[index + 2]
        isBlockquote     == StartsWith(Trim(line), <<">">>)
        isEmpty          == Trim(line) = <<>>
        isLastLine       == index = Len(lines) - 2
        nextLineIndex    == index + 2
        hasNext          == nextLineIndex < Len(lines)
        nextLine         == lines[nextLineIndex + 1]
        \* nextLine && ... : an empty string is falsy
        nextIsBlockquote == hasNext /\ nextLine # <<>> /\ StartsWith(Trim(nextLine), <<">">>)
        nextIsEmpty      == hasNext /\ nextLine # <<>> /\ Trim(nextLine) = <<>>
    IN  IF isBlockquote \/ isEmpty \/ isLastLine \/ nextIsBlockquote \/ nextIsEmpty
        THEN indent \o <<" "," ">> \o line
        ELSE indent \o <<" "," ">> \o line \o <<"\\">>

\* convertBlockContent for nested blocks, were a code block given a bullet
\* as every other block is
MdIndentContentBulleted(converted, lines, depth) ==
    Repeat(<<" "," ">>, depth) \o <<"-"," ">> \o converted

\* the branch of convertBlockContent for nested blocks (depth > 0), lines
\* being converted.split('\n')
MdIndentContent(converted, lines, depth) ==
    LET indent    == Repeat(<<" "," ">>, depth)
        remainingLines == [index \in 0..(Len(lines) - 2) |->
                              MdRemainingLine(lines, index, indent)]
        secondLine     == lines[2]
        needsBackslash == /\ secondLine # <<>>
                          /\ ~StartsWith(Trim(secondLine), <<">">>)
                          /\ Trim(secondLine) # <<>>
        firstLine      == IF needsBackslash
                          THEN indent \o <<"-"," ">> \o lines[1] \o <<"\\">>
                          ELSE indent \o <<"-"," ">> \o lines[1]
    IN  IF StartsWith(converted, <<Backquote,Backquote,Backquote>>)
        THEN Join([i \in 1..Len(lines) |-> indent \o lines[i]], <<"\n">>)
        ELSE IF Len(lines) > 1
        THEN Join(<<firstLine>> \o [i \in 1..(Len(lines) - 1) |-> remainingLines[i - 1]],
                  <<"\n">>)
        ELSE indent \o <<"-"," ">> \o converted

\* convertBlockContent from the split of the converted content on
MdIndentConverted(converted, depth) ==
    IF depth > 0 THEN MdIndentContent(converted, Split(converted, "\n"), depth)
    ELSE converted

MdConvertBlockContent(c, depth) ==
    IF IsBlank(c) THEN <<>> ELSE MdIndentConverted(MdConvertLogseqSyntax(c), depth)

MdConvertProperties(properties) ==
    LET listed == ListedProperties(properties)
    IN  Join(<<<<"*","*","P","r","o","p","e","r","t","i","e","s",":","*","*">>>>
             \o [i \in 1..Len(listed) |->
                   <<"-"," ","*","*">> \o listed[i].key \o <<"*","*",":"," ">> \o listed[i].value.text],
             <<"\n">>)

RECURSIVE MdProcessBlock(_, _, _, _)
\* processBlock once the content of the block is converted to c: the pushes
\* and the loop over the children
MdPushBlock(b, lines, depth, opts, c) ==
    LET withOwn    == IF Trim(c) # <<>> THEN Append(lines, Piece(b, "content", c)) ELSE lines
        withProps  == IF opts.includeProperties /\ Len(b.properties) > 0
                      THEN Append(withOwn, Piece(b, "properties",
                                                 MdConvertProperties(b.properties)))
                      ELSE withOwn
        RECURSIVE Over(_, _)
        Over(children, acc) ==
            IF children = <<>> THEN acc
            ELSE Over(Tail(children), MdProcessBlock(Head(children), acc, depth + 1, opts))
    IN  IF opts.includeChildren /\ Len(b.children) > 0
        THEN Over(b.children, withProps)
        ELSE withProps

\* processBlock(block, lines, depth, options): the lines array afterwards
MdProcessBlock(b, lines, depth, opts) ==
    IF BeyondMaxDepth(opts, depth) THEN lines
    ELSE MdPushBlock(b, lines, depth, opts, MdConvertBlockContent(b.content, depth))

\* the ExportResult convertBlock returns, lines being what processBlock pushed
MdExportResult(b, opts, lines) ==
    [format     |-> "markdown",
     content    |-> Join(Texts(lines), <<"\n">>),
     blockCount |-> MdCountBlocks(b, opts),
     pieces     |-> lines]

\* MarkdownConverter.convertBlock(block, options)
MdConvertBlock(b, opts) == MdExportResult(b, opts, MdProcessBlock(b, <<>>, 0, opts))

-----------------------------------------------------------------------------
(* AsciiDocConverter.  The static field listDepthOffset is threaded        *)
(* through: convertBlockContent returns [text, offset], processBlock works *)
(* on [lines, offset].                                                     *)

AdocConvertLogseqSyntax(c) == AdocGenerate(Parse(c))

convertToDiscreteHeading(line) ==
    LET m == HeadingMatch(line)
    IN  IF m.level = 0 THEN line
        ELSE <<"\n","\n","[","d","i","s","c","r","e","t","e","]","\n">> \o Repeat(<<"=">>, m.level + 1) \o <<" ">> \o m.text \o <<"\n">>

\* lines after the while loop that pops trailing blank lines
DropTrailingBlank(lines) ==
    LET keep == {i \in 1..Len(lines) : Trim(lines[i]) # <<>>}
    IN  IF keep = {} THEN <<>>
        ELSE SubSeq(lines, 1, CHOOSE i \in keep : \A j \in keep : j <= i)

\* the first line with the list marker put in front of the bullet of a task
FirstLineWithMarkerKeepingBullet(converted, lines, indent) ==
    indent \o <<" ">> \o lines[1]

\* the first line with its list marker (the three places that put it, the
\* single-line one included): a task line already starts with "* ["
FirstLineWithMarker(converted, lines, indent) ==
    IF StartsWith(converted, <<"*"," ","[">>)
    THEN indent \o Substring(lines[1], 1)
    ELSE indent \o <<" ">> \o lines[1]

\* processedLines with a continuation mark on the last line as well
AdocProcessedLinesMarkingLast(lines, firstLineWithMarker) ==
    Concat([k \in 1..Len(lines) |->
        LET line == IF k = 1 THEN firstLineWithMarker ELSE lines[k]
        IN  IF Trim(line) = <<>> THEN <<<<"+">>, line>>
            ELSE <<line \o <<" ","+">>>>])

\* the for loop building processedLines
AdocProcessedLines(lines, firstLineWithMarker) ==
    Concat([k \in 1..Len(lines) |->
        LET line == IF k = 1 THEN firstLineWithMarker ELSE lines[k]
        IN  IF k = Len(lines) THEN <<line>>
            ELSE IF Trim(line) = <<>> THEN <<<<"+">>, line>>
            ELSE <<line \o <<" ","+">>>>])

\* a list marker of as many asterisks as the block is deep
AdocIndentTrueDepth(depth, offset) == Repeat(<<"*">>, depth)

\* a list marker of one asterisk at every depth
AdocIndentSingle(depth, offset) == <<"*">>

\* a list marker of depth - offset asterisks, without the floor of one
AdocIndentNoFloor(depth, offset) ==
    LET listOffset == IF IsNull(offset) THEN depth - 1 ELSE offset.value
    IN  Repeat(<<"*">>, depth - listOffset)

\* the list marker convertBlockContent computes at this depth and offset
AdocIndent(depth, offset) ==
    LET listOffset == IF IsNull(offset) THEN depth - 1 ELSE offset.value
    IN  Repeat(<<"*">>, Max2(1, depth - listOffset))

\* convertBlockContent from the heading test on, lines being
\* converted.split('\n')
AdocFormatLines(converted, lines, depth, offset) ==
    LET firstLine == lines[1]
        headingResult == convertToDiscreteHeading(firstLine)
        indent    == AdocIndent(depth, offset)
        hasQuoteBlock == Includes(converted, <<"\n","\"">>) /\ Includes(converted, <<"\n","-","-">>)
        kept      == DropTrailingBlank(lines)
        quoted    == IF Trim(kept[1]) = <<>>
                     THEN indent \o <<" ">> \o Join(Tail(kept), <<"\n">>)
                     ELSE FirstLineWithMarker(converted, kept, indent)
                          \o <<"\n">> \o Join(Tail(kept), <<"\n">>)
    IN  IF isHeading(firstLine) THEN
            [offset |-> Null,
             text   |-> IF Len(lines) > 1
                        THEN headingResult \o Join(Tail(lines), <<"\n">>) \o <<"\n">>
                        ELSE headingResult]
        ELSE IF StartsWith(converted, <<"[","s","o","u","r","c","e">>) THEN
            [offset |-> offset, text |-> <<"\n">> \o converted]
        ELSE IF depth > 0 THEN
            [offset |-> IF IsNull(offset) THEN Number(depth - 1) ELSE offset,
             text   |-> IF Len(lines) > 1
                        THEN IF hasQuoteBlock THEN quoted
                             ELSE Join(AdocProcessedLines(lines,
                                          FirstLineWithMarker(converted, lines, indent)),
                                       <<"\n">>)
                        ELSE FirstLineWithMarker(converted, lines, indent)]
        ELSE [offset |-> offset, text |-> converted]

\* convertBlockContent from the split of the converted content on
AdocFormatConverted(converted, depth, offset) ==
    AdocFormatLines(converted, Split(converted, "\n"), depth, offset)

\* convertBlockContent(content, depth) with listDepthOffset holding offset:
\* [offset, text], the offset being the field afterwards
AdocConvertBlockContent(c, depth, offset) ==
    IF IsBlank(c) THEN [offset |-> offset, text |-> <<>>]
    ELSE AdocFormatConverted(AdocConvertLogseqSyntax(c), depth, offset)

AdocConvertProperties(properties) ==
    LET listed == ListedProperties(properties)
    IN  Join(<<<<"*","P","r","o","p","e","r","t","i","e","s",":","*">>, <<>>>>
             \o [i \in 1..Len(listed) |->
                   <<"*"," ","*">> \o listed[i].key \o <<"*",":"," ">> \o listed[i].value.text],
             <<"\n">>)

RECURSIVE AdocProcessBlock(_, _, _, _)
\* processBlock once the content of the block is converted to c: the pushes
\* and the loop over the children
AdocPushBlock(b, st, depth, opts, c) ==
    LET withOwn    == IF Trim(c.text) # <<>>
                      THEN Append(st.lines, Piece(b, "content", c.text))
                      ELSE st.lines
        withProps  == IF opts.includeProperties /\ Len(b.properties) > 0
                      THEN Append(withOwn, Piece(b, "properties",
                                                 AdocConvertProperties(b.properties)))
                      ELSE withOwn
        own        == [offset |-> c.offset, lines |-> withProps]
        RECURSIVE Over(_, _)
        Over(children, acc) ==
            IF children = <<>> THEN acc
            ELSE Over(Tail(children), AdocProcessBlock(Head(children), acc, depth + 1, opts))
    IN  IF opts.includeChildren /\ Len(b.children) > 0
        THEN Over(b.children, own)
        ELSE own

\* processBlock(block, lines, depth, options) on st = [lines, offset]
AdocProcessBlock(b, st, depth, opts) ==
    IF BeyondMaxDepth(opts, depth) THEN st
    ELSE AdocPushBlock(b, st, depth, opts,
                       AdocConvertBlockContent(b.content, depth, st.offset))

\* the ExportResult convertBlock returns and the field afterwards, st being
\* what processBlock left
AdocExportResult(b, opts, st) ==
    [result |-> [format     |-> "asciidoc",
                 content    |-> Join(Texts(st.lines), <<"\n">>),
                 blockCount |-> AdocCountBlocks(b, opts),
                 pieces     |-> st.lines],
     offset |-> st.offset]

\* AsciiDocConverter.convertBlock without the reset of listDepthOffset on entry
AdocConvertBlockKeepingOffset(b, opts, offset) ==
    AdocExportResult(b, opts,
                     AdocProcessBlock(b, [lines |-> <<>>, offset |-> offset], 0, opts))

\* AsciiDocConverter.convertBlock(block, options), entered with the static
\* field holding offset: [result, offset], the offset being the field afterwards
AdocConvertBlock(b, opts, offset) ==
    AdocExportResult(b, opts,
                     AdocProcessBlock(b, [lines |-> <<>>, offset |-> Null], 0, opts))

-----------------------------------------------------------------------------
(* HtmlConverter *)

HtmlConvertLogseqSyntax(c) == HtmlGenerate(Parse(c))

\* s.replace(/\n/g, '<br>')
WithBreaks(s) ==
    Concat([i \in 1..Len(s) |-> IF s[i] = "\n" THEN <<"<","b","r",">">> ELSE <<s[i]>>])

\* the decimal digit of a heading level 1..6
LevelDigit(level) == <<"1", "2", "3", "4", "5", "6">>[level]

convertToHeading(line) ==
    LET m == HeadingMatch(line)
    IN  IF m.level = 0 THEN line
        ELSE <<"<","h">> \o <<LevelDigit(m.level)>> \o <<">">> \o HtmlConvertLogseqSyntax(m.text)
             \o <<"<","/","h">> \o <<LevelDigit(m.level)>> \o <<">">>

\* the heading branch of convertBlockContent, heading being
\* convertToHeading(firstLine)
HtmlHeadingContent(lines, heading) ==
    IF Len(lines) > 1
    THEN heading \o WithBreaks(HtmlConvertLogseqSyntax(Join(Tail(lines), <<"\n">>)))
    ELSE heading

HtmlConvertBlockContent(c) ==
    LET lines     == Split(c, "\n")
        firstLine == lines[1]
    IN  IF IsBlank(c) THEN <<>>
        ELSE IF isHeading(firstLine) THEN
            HtmlHeadingContent(lines, convertToHeading(firstLine))
        ELSE WithBreaks(HtmlConvertLogseqSyntax(c))

HtmlConvertProperties(properties) ==
    LET listed == ListedProperties(properties)
    IN  <<"<","d","i","v"," ","c","l","a","s","s","=","\"","p","r","o","p","e","r","t","i","e","s","\"",">","<","s","t","r","o","n","g",">","P","r","o","p","e","r","t","i","e","s",":","<","/","s","t","r","o","n","g",">","<","u","l",">">>
        \o Concat([i \in 1..Len(listed) |->
                     <<"<","l","i",">","<","s","t","r","o","n","g",">">> \o escapeHtml(listed[i].key) \o <<"<","/","s","t","r","o","n","g",">",":"," ">>
                     \o escapeHtml(listed[i].value.text) \o <<"<","/","l","i",">">>])
        \o <<"<","/","u","l",">","<","/","d","i","v",">">>

RECURSIVE generateListItem(_, _), generateListItems(_, _)
\* for (const child of block.children) html += this.generateListItem(child, options)
generateListItems(children, opts) ==
    IF children = <<>> THEN <<>>
    ELSE generateListItem(Head(children), opts) \o generateListItems(Tail(children), opts)

\* generateListItem(block, options): the pieces of its html
generateListItem(b, opts) ==
        <<Piece(b, "markup", <<"<","l","i",">">>),
          Piece(b, "content", HtmlConvertBlockContent(b.content))>>
        \o (IF opts.includeProperties /\ Len(b.properties) > 0
            THEN <<Piece(b, "properties", HtmlConvertProperties(b.properties))>>
            ELSE <<>>)
        \o (IF opts.includeChildren /\ Len(b.children) > 0
            THEN <<Piece(b, "markup", <<"<","u","l",">">>)>>
                 \o generateListItems(b.children, opts)
                 \o <<Piece(b, "markup", <<"<","/","u","l",">">>)>>
            ELSE <<>>)
        \o <<Piece(b, "markup", <<"<","/","l","i",">">>)>>

\* generateHtml that leaves the list of the root's children open
HtmlOfBlockUnclosed(b, depth, opts, converted) ==
    IF depth = 0 THEN
        (IF Trim(converted) # <<>> THEN <<Piece(b, "content", converted)>> ELSE <<>>)
        \o (IF opts.includeProperties /\ Len(b.properties) > 0
            THEN <<Piece(b, "properties", HtmlConvertProperties(b.properties))>>
            ELSE <<>>)
        \o (IF opts.includeChildren /\ Len(b.children) > 0
            THEN <<Piece(b, "markup", <<"<","u","l",">">>)>>
                 \o generateListItems(b.children, opts)
            ELSE <<>>)
    ELSE <<Piece(b, "content", converted)>>

\* generateHtml once the content of the block is converted: the pieces of
\* the html of the root, or of a block that is not the root
HtmlOfBlock(b, depth, opts, converted) ==
    IF depth = 0 THEN
        (IF Trim(converted) # <<>> THEN <<Piece(b, "content", converted)>> ELSE <<>>)
        \o (IF opts.includeProperties /\ Len(b.properties) > 0
            THEN <<Piece(b, "properties", HtmlConvertProperties(b.properties))>>
            ELSE <<>>)
        \o (IF opts.includeChildren /\ Len(b.children) > 0
            THEN <<Piece(b, "markup", <<"<","u","l",">">>)>>
                 \o generateListItems(b.children, opts)
                 \o <<Piece(b, "markup", <<"<","/","u","l",">">>)>>
            ELSE <<>>)
    ELSE <<Piece(b, "content", converted)>>

\* generateHtml descending into the children whatever includeChildren is
generateHtmlWithChildren(b, depth, opts) ==
    IF BeyondMaxDepth(opts, depth) THEN <<>>
    ELSE HtmlOfBlock(b, depth, [opts EXCEPT !.includeChildren = TRUE],
                     HtmlConvertBlockContent(b.content))

\* generateHtml(block, depth, options): the pieces of its html
generateHtml(b, depth, opts) ==
    IF BeyondMaxDepth(opts, depth) THEN <<>>
    ELSE HtmlOfBlock(b, depth, opts, HtmlConvertBlockContent(b.content))

\* the ExportResult convertBlock returns, html being what generateHtml returned
HtmlExportResult(b, opts, html) ==
    [format     |-> "html",
     content    |-> Concat(Texts(html)),
     blockCount |-> HtmlCountBlocks(b, opts),
     pieces     |-> html]

\* HtmlConverter.convertBlock(block, options)
HtmlConvertBlock(b, opts) == HtmlExportResult(b, opts, generateHtml(b, 0, opts))

-----------------------------------------------------------------------------
(* Block trees and options the converters are run on.                      *)

\* A block tree of the first specification has at most ConvertMaxNodes blocks,
\* one of the second at most AdocMaxNodes, one of the third at most
\* RepeatMaxNodes.
ConvertMaxNodes == 5

AdocMaxNodes == 5

RepeatMaxNodes == 3

\* options.maxDepth is absent or one of -1 .. MaxDepthOption
MaxDepthOption == 2

RECURSIVE BlockTrees(_, _, _), BlockForests(_, _, _, _)
\* The trees of exactly n blocks with contents from pool, rooted at uuid path.
BlockTrees(pool, n, path) ==
    IF n < 1 THEN {}
    ELSE {[uuid |-> path, content |-> c, children |-> f, properties |-> <<>>] :
             c \in pool, f \in BlockForests(pool, n - 1, path, 1)}

\* The children lists of n blocks in all, the first child being number i.
BlockForests(pool, n, path, i) ==
    IF n = 0 THEN {<<>>}
    ELSE UNION {{<<t>> \o rest : t \in BlockTrees(pool, k, path \o <<i>>),
                                 rest \in BlockForests(pool, n - k, path, i + 1)} :
                k \in 1..n}

\* The trees of at most n blocks: root content from rootPool, the others' from pool.
Blocks(rootPool, pool, n) ==
    {[uuid |-> <<>>, content |-> c, children |-> f, properties |-> <<>>] :
        c \in rootPool, f \in UNION {BlockForests(pool, k, <<>>, 1) : k \in 0..(n - 1)}}

MaxDepths == {NoMaxDepth} \cup {[set |-> TRUE, value |-> v] : v \in (-1)..MaxDepthOption}

ExportOptions(children, depths) ==
    {[includeChildren |-> ic, includeProperties |-> FALSE, maxDepth |-> md] :
        ic \in children, md \in depths}

\* Block contents: plain text, a task, a done task, a heading, a heading
\* without text, nothing, a code block.
PlainContent == <<"a">>

TodoContent == <<"T","O","D","O"," ","a">>

DoneContent == <<"D","O","N","E"," ","a">>

HeadingContent == <<"#"," ","a">>

BareHeadingContent == <<"#"," ">>

CodeContent == <<Backquote,Backquote,Backquote,"\n","x",Backquote,Backquote,Backquote>>

-----------------------------------------------------------------------------
(* The converters as a state machine: one action per convertBlock.         *)

\* MarkdownConverter.convertBlock(b, opts)
MarkdownConvertBlock(b, opts) ==
    /\ block' = b
    /\ options' = opts
    /\ result' = MdConvertBlock(b, opts)
    /\ UNCHANGED <<listDepthOffset, enteredWith>>
    /\ UNCHANGED parserVars
    /\ UNCHANGED callVars

\* AsciiDocConverter.convertBlock(b, opts)
AsciiDocConvertBlock(b, opts) ==
    /\ block' = b
    /\ options' = opts
    /\ \E r \in {AdocConvertBlock(b, opts, listDepthOffset)} :
           /\ result' = r.result
           /\ listDepthOffset' = r.offset
    /\ enteredWith' = listDepthOffset
    /\ UNCHANGED parserVars
    /\ UNCHANGED callVars

\* HtmlConverter.convertBlock(b, opts)
HtmlConvertBlockCall(b, opts) ==
    /\ block' = b
    /\ options' = opts
    /\ result' = HtmlConvertBlock(b, opts)
    /\ UNCHANGED <<listDepthOffset, enteredWith>>
    /\ UNCHANGED parserVars
    /\ UNCHANGED callVars

ParserIdle ==
    /\ content = <<>>
    /\ position = 0
    /\ tokens = <<>>
    /\ parsed = TRUE

(* First specification: a block and options are selected, and the block is *)
(* exported in any format any number of times.                             *)

ConvertContents == {PlainContent, <<>>}

InitConvert ==
    /\ ParserIdle
    /\ block \in Blocks(ConvertContents, ConvertContents, ConvertMaxNodes)
    /\ options \in ExportOptions(BOOLEAN, MaxDepths)
    /\ result = NoResult
    /\ listDepthOffset = Null
    /\ enteredWith = Null
    /\ CallsIdle

ExportMarkdown == MarkdownConvertBlock(block, options)

ExportAsciiDoc == AsciiDocConvertBlock(block, options)

ExportHtml == HtmlConvertBlockCall(block, options)

NextConvert == ExportMarkdown \/ ExportAsciiDoc \/ ExportHtml

SpecConvert == InitConvert /\ [][NextConvert]_vars

-----------------------------------------------------------------------------
(* Claims about the three converters.                                      *)

RECURSIVE AllBlocks(_)
\* the blocks of a tree
AllBlocks(b) ==
    {b} \cup UNION {AllBlocks(b.children[i]) : i \in 1..Len(b.children)}

\* the depth of a block: the root has depth 0
DepthOf(b) == Len(b.uuid)

\* the result holds content rendered from block b
ContentRendered(res, b) ==
    \E i \in 1..Len(res.pieces) :
        /\ res.pieces[i].src = b.uuid
        /\ res.pieces[i].kind = "content"
        /\ res.pieces[i].text # <<>>

Converted == result.format # "none"

\* C3: with includeChildren and a maxDepth m >= 1, each of the three
\* converters renders the content of the blocks at depth <= m and of no block
\* at depth > m.
C3_MaxDepthLimitsEveryFormat ==
    (Converted /\ options.includeChildren
               /\ options.maxDepth.set /\ options.maxDepth.value >= 1)
    => \A b \in AllBlocks(block) :
          /\ (DepthOf(b) <= options.maxDepth.value /\ ~IsBlank(b.content))
                => ContentRendered(result, b)
          /\ DepthOf(b) > options.maxDepth.value => ~ContentRendered(result, b)

\* C12: with maxDepth 0 or negative, each of the three converters returns a
\* result that holds the content of the root block and the content of none of
\* its descendants.
C12_NonPositiveMaxDepthKeepsRootOnly ==
    (Converted /\ options.maxDepth.set /\ options.maxDepth.value <= 0)
    => /\ ~IsBlank(block.content) => ContentRendered(result, block)
       /\ \A b \in AllBlocks(block) : DepthOf(b) > 0 => ~ContentRendered(result, b)

\* convertBlock of the given format, called first in a process
ConvertWith(format, b, opts) ==
    CASE format = "markdown" -> MdConvertBlock(b, opts)
      [] format = "asciidoc" -> AdocConvertBlock(b, opts, Null).result
      [] format = "html"     -> HtmlConvertBlock(b, opts)

\* C4: for a block that has children, convertBlock with includeChildren =
\* false returns content produced from the root block alone, and blockCount 1,
\* in all three converters.
C4_ChildrenExcluded ==
    (Converted /\ ~options.includeChildren /\ block.children # <<>>)
    => /\ \A i \in 1..Len(result.pieces) : result.pieces[i].src = block.uuid
       /\ result.content =
             ConvertWith(result.format, [block EXCEPT !.children = <<>>], options).content
       /\ result.blockCount = 1

\* C4: an HTML export without children of a block whose first child has
\* content returned the content of the root alone.
C4_Witness ==
    /\ result.format = "html"
    /\ ~options.includeChildren
    /\ block.children # <<>>
    /\ block.children[1].content = PlainContent
    /\ result.content = PlainContent
    /\ result.blockCount = 1

\* the blocks whose content the result holds
RenderedBlocks(res, b) == {x \in AllBlocks(b) : ContentRendered(res, x)}

\* C5: blockCount is the number of blocks reachable through children lists when
\* includeChildren is true and 1 otherwise, whatever maxDepth is and whatever
\* was rendered; it is at least the number of blocks rendered and the same in
\* the three converters.
C5_BlockCount ==
    Converted
    => /\ result.blockCount =
             (IF options.includeChildren THEN Cardinality(AllBlocks(block)) ELSE 1)
       /\ result.blockCount >= Cardinality(RenderedBlocks(result, block))
       /\ MdCountBlocks(block, options) = result.blockCount
       /\ AdocCountBlocks(block, options) = result.blockCount
       /\ HtmlCountBlocks(block, options) = result.blockCount

\* C5: an AsciiDoc export limited to depth 1 of a chain of three blocks with
\* content counted three blocks and rendered two.
C5_Witness ==
    /\ result.format = "asciidoc"
    /\ options.includeChildren
    /\ options.maxDepth = [set |-> TRUE, value |-> 1]
    /\ Cardinality(AllBlocks(block)) = 3
    /\ \A b \in AllBlocks(block) : b.content = PlainContent /\ Len(b.children) <= 1
    /\ result.blockCount = 3
    /\ Cardinality(RenderedBlocks(result, block)) = 2

(* Second specification: AsciiDoc exports of trees that mix list items,    *)
(* tasks, headings, blocks without content and code blocks.                *)

AdocContents ==
    {PlainContent, TodoContent, DoneContent, HeadingContent, BareHeadingContent,
     <<>>, CodeContent}

InitAdoc ==
    /\ ParserIdle
    /\ block \in Blocks({PlainContent}, AdocContents, AdocMaxNodes)
    /\ options \in ExportOptions({TRUE}, {NoMaxDepth})
    /\ result = NoResult
    /\ listDepthOffset = Null
    /\ enteredWith = Null
    /\ CallsIdle

NextAdoc == ExportAsciiDoc

SpecAdoc == InitAdoc /\ [][NextAdoc]_vars

-----------------------------------------------------------------------------
(* Claims about the list markers of the AsciiDoc converter.                *)

\* the block of the selected tree with the given uuid
BlockAt(uuid) == CHOOSE b \in AllBlocks(block) : b.uuid = uuid

\* the first line of a block's content
FirstLineOf(b) == Split(b.content, "\n")[1]

IsHeadingBlock(b) == ~IsBlank(b.content) /\ isHeading(FirstLineOf(b))

IsCodeBlock(b) == ~IsNull(tryMatchCodeBlock(b.content, 0))

IsTaskBlock(b) == ~IsNull(tryMatchTaskMarker(b.content, 0))

\* a list item: a block with content at depth >= 1 that is no heading and no code
IsListItem(b) ==
    /\ DepthOf(b) >= 1
    /\ ~IsBlank(b.content)
    /\ ~IsHeadingBlock(b)
    /\ ~IsCodeBlock(b)

\* the number of asterisks a text starts with
MarkerOf(text) == RunLen(text, 0, Class({"*"}))

AdocExported == result.format = "asciidoc"

\* the i-th piece of the result is the content of a list item / of a heading
ItemPiece(i) ==
    result.pieces[i].kind = "content" /\ IsListItem(BlockAt(result.pieces[i].src))

HeadingPiece(i) ==
    result.pieces[i].kind = "content" /\ IsHeadingBlock(BlockAt(result.pieces[i].src))

\* no list item was emitted before piece i since the start or the last heading
FirstSinceReset(i) ==
    \A j \in 1..(i - 1) :
        ItemPiece(j) => \E k \in (j + 1)..(i - 1) : HeadingPiece(k)

Checkboxes == {<<" ","["," ","]"," ">>, <<" ","[","x","]"," ">>}

LevelOf(line) == RunLen(line, 0, Class({"#"}))

\* no list item was emitted after the last heading
EndsAfterHeading ==
    \E k \in 1..Len(result.pieces) :
        HeadingPiece(k) /\ \A j \in (k + 1)..Len(result.pieces) : ~ItemPiece(j)

\* C8: a block whose first line is a heading of level k is emitted, at any
\* depth, as a [discrete] section line with k+1 = characters and never with a
\* list marker, and emitting it resets the list depth offset.
C8_HeadingIsDiscrete ==
    AdocExported
    => /\ \A i \in 1..Len(result.pieces) :
             HeadingPiece(i)
             => LET line == FirstLineOf(BlockAt(result.pieces[i].src))
                IN  /\ StartsWith(result.pieces[i].text,
                                  <<"\n","\n","[","d","i","s","c","r","e","t","e","]","\n">> \o Repeat(<<"=">>, LevelOf(line) + 1)
                                  \o <<" ">>)
                    /\ MarkerOf(result.pieces[i].text) = 0
       /\ EndsAfterHeading => IsNull(listDepthOffset)

\* the index of the content piece of block b in the result, 0 if it has none
PieceIndex(b) ==
    LET at == {i \in 1..Len(result.pieces) :
                  result.pieces[i].src = b.uuid /\ result.pieces[i].kind = "content"}
    IN  IF at = {} THEN 0 ELSE CHOOSE i \in at : TRUE

\* b and c were both rendered as list items
BothListItems(b, c) ==
    /\ IsListItem(b) /\ IsListItem(c)
    /\ PieceIndex(b) > 0 /\ PieceIndex(c) > 0

\* the marker of the content piece of block b
MarkerOfBlock(b) == MarkerOf(result.pieces[PieceIndex(b)].text)

\* C9 as stated: whenever a block and its parent are both rendered as list
\* items, the marker of the child has exactly one more asterisk than the
\* marker of the parent.
C9_ChildOneDeeper ==
    AdocExported
    => \A b \in AllBlocks(block) : \A n \in 1..Len(b.children) :
          BothListItems(b, b.children[n])
          => MarkerOfBlock(b.children[n]) = MarkerOfBlock(b) + 1

\* no heading was emitted between pieces i and j
NoHeadingBetween(i, j) == \A k \in (i + 1)..(j - 1) : ~HeadingPiece(k)

\* the first list item emitted since the last heading before piece i, or since
\* the start: the one that set the list depth offset in force at piece i
FirstItemSince(i) ==
    CHOOSE f \in 1..i :
        /\ ItemPiece(f)
        /\ NoHeadingBetween(f, i + 1)
        /\ \A j \in 1..(f - 1) : ItemPiece(j) => ~NoHeadingBetween(j, f)

\* C9 amended: whenever a block and its parent are both rendered as list items,
\* no heading is emitted between the two, and the parent is at least as deep as
\* the first list item emitted since the last heading before it (or since the
\* start), the marker of the child has exactly one more asterisk than the
\* marker of the parent.
C9_ChildOneDeeperWithinList ==
    AdocExported
    => \A b \in AllBlocks(block) : \A n \in 1..Len(b.children) :
          LET c == b.children[n]
          IN  (/\ BothListItems(b, c)
               /\ NoHeadingBetween(PieceIndex(b), PieceIndex(c))
               /\ DepthOf(b) >= Len(result.pieces[FirstItemSince(PieceIndex(b))].src))
              => MarkerOfBlock(c) = MarkerOfBlock(b) + 1

\* C9: a list item at depth 2 and its child at depth 3 got ** and ***.
C9_Witness ==
    /\ AdocExported
    /\ \E b \in AllBlocks(block) :
          /\ DepthOf(b) = 2 /\ Len(b.children) = 1
          /\ BothListItems(b, b.children[1])
          /\ result.pieces[PieceIndex(b)].text = <<"*","*"," ","a">>
          /\ result.pieces[PieceIndex(b.children[1])].text = <<"*","*","*"," ","a">>

-----------------------------------------------------------------------------
(* The list depth offset as a state machine over the blocks in the order    *)
(* processBlock visits them.                                                *)

\* the blocks of a tree in the order processBlock visits them when children
\* are included and no maximal depth is set
RECURSIVE VisitOrder(_)
VisitOrder(b) ==
    <<b>> \o Concat([n \in 1..Len(b.children) |-> VisitOrder(b.children[n])])

\* the offset after the first k visited blocks when every block that is no
\* heading and no code block initialises it
RECURSIVE OffsetAsStated(_, _)
OffsetAsStated(visited, k) ==
    IF k = 0 THEN Null
    ELSE IF IsHeadingBlock(visited[k]) THEN Null
    ELSE IF IsCodeBlock(visited[k]) THEN OffsetAsStated(visited, k - 1)
    ELSE IF IsNull(OffsetAsStated(visited, k - 1)) THEN Number(DepthOf(visited[k]) - 1)
    ELSE OffsetAsStated(visited, k - 1)

\* the offset after the first k visited blocks when only list items
\* initialise it: convertBlockContent returns before the offset for a block
\* without content and touches the offset of any other block only inside
\* if (depth > 0)
RECURSIVE OffsetOfItems(_, _)
OffsetOfItems(visited, k) ==
    IF k = 0 THEN Null
    ELSE IF IsHeadingBlock(visited[k]) THEN Null
    ELSE IF IsListItem(visited[k]) /\ IsNull(OffsetOfItems(visited, k - 1))
    THEN Number(DepthOf(visited[k]) - 1)
    ELSE OffsetOfItems(visited, k - 1)

-----------------------------------------------------------------------------
(* Third specification: AsciiDocConverter.convertBlock is called again and *)
(* again in one process, on any tree and options; the static field         *)
(* listDepthOffset lives on between the calls.                             *)

RepeatContents == {PlainContent, HeadingContent, <<>>}

InitRepeat ==
    /\ ParserIdle
    /\ block = NoBlock
    /\ options = NoOptions
    /\ result = NoResult
    /\ listDepthOffset = Null
    /\ enteredWith = Null
    /\ CallsIdle

CallAsciiDoc ==
    \E b \in Blocks({PlainContent}, RepeatContents, RepeatMaxNodes),
       opts \in ExportOptions(BOOLEAN, {NoMaxDepth, [set |-> TRUE, value |-> 1]}) :
        AsciiDocConvertBlock(b, opts)

NextRepeat == CallAsciiDoc

SpecRepeat == InitRepeat /\ [][NextRepeat]_vars

\* C10: the result of AsciiDocConverter.convertBlock depends only on its
\* arguments: after any sequence of earlier calls, a call returns what it
\* returns when it is the first call of the process.
C10_ResultDependsOnArgumentsOnly ==
    AdocExported => result = AdocConvertBlock(block, options, Null).result

\* C10: a call on Root -> item -> item that found the offset 1 left behind by an
\* earlier call rendered the grandchild with two asterisks.
C10_Witness ==
    /\ AdocExported
    /\ enteredWith = Number(1)
    /\ Len(result.pieces) = 3
    /\ result.pieces[2].text = <<"*"," ","a">>
    /\ result.pieces[3].src = <<1, 1>>
    /\ result.pieces[3].text = <<"*","*"," ","a">>


-----------------------------------------------------------------------------
(* AsciiDoc conversions block visit by block visit.  A conversion is one   *)
(* convertBlock call; its steps are the processBlock visits, in the order  *)
(* of the recursion.  listDepthOffset is the one static field every call   *)
(* reads and writes.                                                       *)

\* A block tree of the fourth specification has at most InterleaveMaxNodes blocks.
InterleaveMaxNodes == 3

\* the convertBlock calls that may be in progress together
Slots == 1..2

InterleaveOptions ==
    [includeChildren |-> TRUE, includeProperties |-> FALSE, maxDepth |-> NoMaxDepth]

InterleaveContents == {PlainContent, HeadingContent}

\* no convertBlock call was made in this slot
NoConversion == [state |-> "idle"]

InitInterleave ==
    /\ ParserIdle
    /\ block = NoBlock
    /\ options = NoOptions
    /\ result = NoResult
    /\ listDepthOffset = Null
    /\ enteredWith = Null
    /\ conversions = [i \in Slots |-> NoConversion]
    /\ service = NoService

\* convertBlock(b, opts) up to its call of processBlock: lines = [], the
\* static field reset, the root waiting to be visited at depth 0
EnterConvertBlock(i, b, opts) ==
    /\ conversions[i].state # "running"
    /\ conversions' = [conversions EXCEPT ![i] =
                          [state   |-> "running",
                           block   |-> b,
                           options |-> opts,
                           pending |-> <<[block |-> b, depth |-> 0]>>,
                           lines   |-> <<>>]]
    /\ listDepthOffset' = Null
    /\ UNCHANGED <<block, options, result, enteredWith, service>>
    /\ UNCHANGED parserVars

\* processBlock of the next waiting block up to its loop over the children:
\* [offset, lines] afterwards, the static field holding offset before
VisitedBlock(call, offset) ==
    AdocProcessBlock([Head(call.pending).block EXCEPT !.children = <<>>],
                     [offset |-> offset, lines |-> call.lines],
                     Head(call.pending).depth, call.options)

\* the processBlock calls of the loop over the children of the next waiting block
ChildVisits(call) ==
    IF \/ BeyondMaxDepth(call.options, Head(call.pending).depth)
       \/ ~call.options.includeChildren
    THEN <<>>
    ELSE [k \in 1..Len(Head(call.pending).block.children) |->
             [block |-> Head(call.pending).block.children[k],
              depth |-> Head(call.pending).depth + 1]]

\* one processBlock visit of conversion i
VisitBlock(i) ==
    /\ conversions[i].state = "running"
    /\ conversions[i].pending # <<>>
    /\ \E st \in {VisitedBlock(conversions[i], listDepthOffset)} :
           /\ conversions' = [conversions EXCEPT
                                 ![i].lines = st.lines,
                                 ![i].pending = ChildVisits(conversions[i]) \o Tail(@)]
           /\ listDepthOffset' = st.offset
    /\ UNCHANGED <<block, options, result, enteredWith, service>>
    /\ UNCHANGED parserVars

\* convertBlock after processBlock returned: the ExportResult
ReturnResult(i) ==
    /\ conversions[i].state = "running"
    /\ conversions[i].pending = <<>>
    /\ conversions' = [conversions EXCEPT ![i] =
                          [state   |-> "returned",
                           block   |-> conversions[i].block,
                           options |-> conversions[i].options,
                           result  |-> AdocExportResult(conversions[i].block,
                                                        conversions[i].options,
                                                        [lines  |-> conversions[i].lines,
                                                         offset |-> listDepthOffset]).result]]
    /\ UNCHANGED converterVars
    /\ UNCHANGED service
    /\ UNCHANGED parserVars

NextInterleave ==
    \/ \E i \in Slots, b \in Blocks({PlainContent}, InterleaveContents, InterleaveMaxNodes) :
           EnterConvertBlock(i, b, InterleaveOptions)
    \/ \E i \in Slots : VisitBlock(i)
    \/ \E i \in Slots : ReturnResult(i)

SpecInterleave == InitInterleave /\ [][NextInterleave]_vars

\* conversion i has returned
Returned(i) == conversions[i].state = "returned"

\* the result convertBlock gives for the arguments of conversion i when no
\* other call touches the static field
ResultAlone(i) ==
    AdocConvertBlock(conversions[i].block, conversions[i].options, Null).result

\* A conversion whose visits no other conversion came between (the other
\* slot never entered) returns what convertBlock returns.
VisitsAloneGiveResult ==
    \A i \in Slots :
        (Returned(i) /\ \A j \in Slots \ {i} : conversions[j].state = "idle")
            => conversions[i].result = ResultAlone(i)

\* C11: when the block visits of two conversions are interleaved, each
\* conversion returns the result it returns when run alone (the depth offset
\* is scoped to the call).
C11_InterleavedConversionsUnaffected ==
    \A i \in Slots : Returned(i) => conversions[i].result = ResultAlone(i)
-----------------------------------------------------------------------------
(* Markdown conversion of multi-line blocks: the block under study is the  *)
(* last one of a chain whose other blocks hold plain text.                 *)

\* A block content has at most MaxLines lines.
MaxLines == 3

\* The block under study lies at depth 0 .. MaxLineDepth.
MaxLineDepth == 2

\* The lines of a content: text, a blockquote, a zero-length line, a
\* whitespace-only line.
ContentLines == {<<"a">>, <<">","a">>, <<>>, <<" ">>}

RECURSIVE LinesOf(_)
\* the sequences of n lines
LinesOf(n) ==
    IF n = 0 THEN {<<>>}
    ELSE {<<line>> \o rest : line \in ContentLines, rest \in LinesOf(n - 1)}

\* the multi-line contents, and a fenced code block
LineContents ==
    {Join(lines, <<"\n">>) : lines \in UNION {LinesOf(n) : n \in 1..MaxLines}}
    \cup {CodeContent}

RECURSIVE ChainTo(_, _, _)
\* the chain of blocks from the block with the given uuid, under which the
\* block with content c lies d levels deeper
ChainTo(uuid, c, d) ==
    IF d = 0 THEN [uuid |-> uuid, content |-> c, children |-> <<>>, properties |-> <<>>]
    ELSE [uuid |-> uuid, content |-> PlainContent,
          children |-> <<ChainTo(Append(uuid, 1), c, d - 1)>>, properties |-> <<>>]

InitMarkdownLines ==
    /\ ParserIdle
    /\ block \in {ChainTo(<<>>, c, d) : c \in LineContents, d \in 0..MaxLineDepth}
    /\ options \in ExportOptions({TRUE}, {NoMaxDepth})
    /\ result = NoResult
    /\ listDepthOffset = Null
    /\ enteredWith = Null
    /\ CallsIdle

NextMarkdownLines == ExportMarkdown

SpecMarkdownLines == InitMarkdownLines /\ [][NextMarkdownLines]_vars

\* the text emitted for block b
EmittedText(b) == result.pieces[PieceIndex(b)].text

\* the opening of a fenced code block
Fence == <<Backquote, Backquote, Backquote>>

\* text is rendered, prefixed as a block at depth d is: not at all at depth
\* 0, every line by 2*d spaces when rendered opens with a code fence, the
\* first line by 2*d spaces and '- ' otherwise
MdPrefixed(text, rendered, d) ==
    IF d = 0 THEN text = rendered
    ELSE IF StartsWith(rendered, Fence)
    THEN Split(text, "\n") = [i \in 1..Len(Split(rendered, "\n")) |->
                                 Repeat(<<" "," ">>, d) \o Split(rendered, "\n")[i]]
    ELSE StartsWith(text, Repeat(<<" "," ">>, d) \o <<"-"," ">> \o Split(rendered, "\n")[1])

HardBreak(text, i) ==
    /\ Split(text, "\n")[i] # <<>>
    /\ Split(text, "\n")[i][Len(Split(text, "\n")[i])] = "\\"

\* a blockquote line
IsQuoteLine(line) == StartsWith(Trim(line), <<">">>)

\* an empty line: of zero length or of white space only
IsEmptyLine(line) == Trim(line) = <<>>

\* of the lines emitted as text, none that is the last, a blockquote line or
\* an empty line ends with the suffix, from line number first on
NoBreakOnExcluded(text, lines, first) ==
    \A i \in first..Len(lines) :
        (i = Len(lines) \/ IsQuoteLine(lines[i]) \/ IsEmptyLine(lines[i]))
        => ~HardBreak(text, i)

\* of the lines emitted as text, none that a blockquote line or an empty line
\* follows ends with the suffix, from line number first to line number last
NoBreakBeforeExcluded(text, lines, first, last) ==
    \A i \in first..Min({last, Len(lines) - 1}) :
        (IsQuoteLine(lines[i + 1]) \/ IsEmptyLine(lines[i + 1]))
        => ~HardBreak(text, i)

\* block b was emitted and is no code block
EmittedNonCode(b) ==
    /\ PieceIndex(b) > 0
    /\ ~StartsWith(MdConvertLogseqSyntax(b.content), Fence)

\* C14: in the Markdown of a multi-line non-code block the trailing backslash
\* is never appended to the last line, to a blockquote line or to an empty
\* line, the first line of the block included.
C14_NoBreakOnLastQuoteOrEmptyLine ==
    (Converted /\ result.format = "markdown")
    => \A b \in AllBlocks(block) :
          EmittedNonCode(b)
          => NoBreakOnExcluded(EmittedText(b),
                               Split(MdConvertLogseqSyntax(b.content), "\n"), 1)

\* the same of the continuation lines only: it holds
ContinuationLinesNoBreakOnExcluded ==
    (Converted /\ result.format = "markdown")
    => \A b \in AllBlocks(block) :
          EmittedNonCode(b)
          => NoBreakOnExcluded(EmittedText(b),
                               Split(MdConvertLogseqSyntax(b.content), "\n"), 2)

\* C15: in the Markdown of a multi-line non-code block a line that a
\* blockquote line or an empty line (of zero length or of white space only)
\* follows never gets the trailing backslash, be it the first line or a
\* continuation line.
C15_NoBreakBeforeQuoteOrEmptyLine ==
    (Converted /\ result.format = "markdown")
    => \A b \in AllBlocks(block) :
          EmittedNonCode(b)
          => NoBreakBeforeExcluded(EmittedText(b),
                                   Split(MdConvertLogseqSyntax(b.content), "\n"),
                                   1, MaxLines)

\* the same of the first line only: it holds
FirstLineNoBreakBeforeExcluded ==
    (Converted /\ result.format = "markdown")
    => \A b \in AllBlocks(block) :
          EmittedNonCode(b)
          => NoBreakBeforeExcluded(EmittedText(b),
                                   Split(MdConvertLogseqSyntax(b.content), "\n"),
                                   1, 1)

-----------------------------------------------------------------------------
(* HTML conversion of content that carries the characters & < > " '        *)

\* A payload is a string of at most MaxPayload characters.
MaxPayload == 2

\* the five characters escapeHtml replaces, and a letter
SpecialChars == {"&", "<", ">", "\"", "'"}

PayloadChars == SpecialChars \cup {"x"}

RECURSIVE StringsOf(_, _)
\* the strings of exactly n characters
StringsOf(chars, n) ==
    IF n = 0 THEN {<<>>}
    ELSE {<<c>> \o rest : c \in chars, rest \in StringsOf(chars, n - 1)}

Payloads(n) == UNION {StringsOf(PayloadChars, k) : k \in 1..n}

\* What a payload is put between, one pair for each place of a token that
\* holds text of the block: plain text, reference name, link text, link
\* target (external, internal), alt text, image source (external, local),
\* naked URL, tag, highlight, bold, code, query, blockquote, video URL,
\* video id (YouTube, Vimeo, in a URL), heading text, task text.
Carriers ==
    { [pre |-> <<>>, post |-> <<>>],
      [pre |-> <<"[","[">>, post |-> <<"]","]">>],
      [pre |-> <<"[">>, post |-> <<"]","(","h","t","t","p",":","/","/","a",")">>],
      [pre |-> <<"[","a","]","(","h","t","t","p",":","/","/">>, post |-> <<")">>],
      [pre |-> <<"[","a","]","(">>, post |-> <<")">>],
      [pre |-> <<"!","[">>, post |-> <<"]","(","h","t","t","p",":","/","/","a",")">>],
      [pre |-> <<"!","[","a","]","(","h","t","t","p",":","/","/">>, post |-> <<")">>],
      [pre |-> <<"!","[","a","]","(">>, post |-> <<")">>],
      [pre |-> <<"h","t","t","p",":","/","/">>, post |-> <<>>],
      [pre |-> <<"#","a">>, post |-> <<>>],
      [pre |-> <<"=","=">>, post |-> <<"=","=">>],
      [pre |-> <<"*","*">>, post |-> <<"*","*">>],
      [pre |-> <<Backquote,Backquote,Backquote,"\n">>, post |-> <<Backquote,Backquote,Backquote>>],
      [pre |-> <<"{","{","q","u","e","r","y"," ">>, post |-> <<"}","}">>],
      [pre |-> <<">"," ">>, post |-> <<>>],
      [pre |-> <<"{","{","v","i","d","e","o"," ","h","t","t","p",":","/","/">>, post |-> <<"}","}">>],
      [pre |-> <<"{","{","y","o","u","t","u","b","e"," ">>, post |-> <<"}","}">>],
      [pre |-> <<"{","{","v","i","m","e","o"," ">>, post |-> <<"}","}">>],
      [pre |-> <<"{","{","v","i","d","e","o"," ","h","t","t","p","s",":","/","/","y","o","u","t","u",".","b","e","/">>, post |-> <<"}","}">>],
      [pre |-> <<"#"," ">>, post |-> <<>>],
      [pre |-> <<"a","\n">>, post |-> <<>>],
      [pre |-> <<"#"," ","a","\n">>, post |-> <<>>],
      [pre |-> <<"T","O","D","O"," ">>, post |-> <<>>] }

\* property keys and values: a payload of one character; the value may be null
PropertyLists ==
    {<<[key |-> k, value |-> [isNull |-> FALSE, text |-> v]]>> :
        k \in Payloads(1), v \in Payloads(1)}
    \cup {<<[key |-> k, value |-> [isNull |-> TRUE, text |-> <<>>]]>> : k \in Payloads(1)}

\* a block, at the root or under it, holding a payload in a carrier, and a
\* block holding a payload as property key and value
EscapeBlocks ==
    {ChainTo(<<>>, c.pre \o p \o c.post, d) :
        c \in Carriers, p \in Payloads(MaxPayload), d \in 0..1}
    \cup {[uuid |-> <<>>, content |-> PlainContent, children |-> <<>>, properties |-> ps] :
             ps \in PropertyLists}

InitHtmlEscape ==
    /\ ParserIdle
    /\ block \in EscapeBlocks
    /\ options = [includeChildren |-> TRUE, includeProperties |-> TRUE,
                  maxDepth |-> NoMaxDepth]
    /\ result = NoResult
    /\ listDepthOffset = Null
    /\ enteredWith = Null
    /\ CallsIdle

NextHtmlEscape == ExportHtml

SpecHtmlEscape == InitHtmlEscape /\ [][NextHtmlEscape]_vars

\* the five entities
Entities == {<<"&","a","m","p",";">>, <<"&","l","t",";">>, <<"&","g","t",";">>, <<"&","q","u","o","t",";">>, <<"&","#","0","3","9",";">>}

\* the markup the converter and the generator write themselves
Markup ==
    { <<"<","s","t","r","o","n","g",">">>, <<"<","/","s","t","r","o","n","g",">">>, <<"<","e","m",">">>, <<"<","/","e","m",">">>, <<"<","m","a","r","k",">">>, <<"<","/","m","a","r","k",">">>,
      <<"<","b","l","o","c","k","q","u","o","t","e",">">>, <<"<","/","b","l","o","c","k","q","u","o","t","e",">">>, <<"<","b","r",">">>,
      <<"<","u","l",">">>, <<"<","/","u","l",">">>, <<"<","l","i",">">>, <<"<","/","l","i",">">>, <<"<","d","i","v"," ","c","l","a","s","s","=","\"","p","r","o","p","e","r","t","i","e","s","\"",">">>, <<"<","/","d","i","v",">">>,
      <<"<","h","1",">">>, <<"<","h","2",">">>, <<"<","h","3",">">>, <<"<","h","4",">">>, <<"<","h","5",">">>, <<"<","h","6",">">>,
      <<"<","/","h","1",">">>, <<"<","/","h","2",">">>, <<"<","/","h","3",">">>, <<"<","/","h","4",">">>, <<"<","/","h","5",">">>, <<"<","/","h","6",">">>,
      <<"<","a"," ","h","r","e","f","=","\"">>, <<"\"",">">>, <<"<","/","a",">">>, <<"<","i","m","g"," ","s","r","c","=","\"">>, <<"\""," ","a","l","t","=","\"">>, <<"\""," ","/",">">>,
      <<"<","p","r","e",">","<","c","o","d","e",">">>, <<"<","p","r","e",">","<","c","o","d","e"," ","c","l","a","s","s","=","\"","l","a","n","g","u","a","g","e","-">>, <<"<","/","c","o","d","e",">","<","/","p","r","e",">">>,
      <<"<","i","n","p","u","t"," ","t","y","p","e","=","\"","c","h","e","c","k","b","o","x","\""," ","d","i","s","a","b","l","e","d"," ","/",">"," ">>, <<"<","i","n","p","u","t"," ","t","y","p","e","=","\"","c","h","e","c","k","b","o","x","\""," ","c","h","e","c","k","e","d"," ","d","i","s","a","b","l","e","d"," ","/",">"," ">>,
      <<"<","i","f","r","a","m","e"," ","w","i","d","t","h","=","\"","5","6","0","\""," ","h","e","i","g","h","t","=","\"","3","1","5","\""," ","s","r","c","=","\"","h","t","t","p","s",":","/","/","w","w","w",".","y","o","u","t","u","b","e",".","c","o","m","/","e","m","b","e","d","/">>,
      <<"\""," ","f","r","a","m","e","b","o","r","d","e","r","=","\"","0","\""," ","a","l","l","o","w","f","u","l","l","s","c","r","e","e","n",">","<","/","i","f","r","a","m","e",">">>,
      <<"<","i","f","r","a","m","e"," ","s","r","c","=","\"","h","t","t","p","s",":","/","/","p","l","a","y","e","r",".","v","i","m","e","o",".","c","o","m","/","v","i","d","e","o","/">>,
      <<"\""," ","w","i","d","t","h","=","\"","5","6","0","\""," ","h","e","i","g","h","t","=","\"","3","1","5","\""," ","f","r","a","m","e","b","o","r","d","e","r","=","\"","0","\""," ","a","l","l","o","w","f","u","l","l","s","c","r","e","e","n",">","<","/","i","f","r","a","m","e",">">> }

RECURSIVE WellEscaped(_)
\* s is made of generated markup, entities and characters other than the
\* five special ones
WellEscaped(s) ==
    \/ s = <<>>
    \/ s # <<>> /\ s[1] \notin SpecialChars /\ WellEscaped(Tail(s))
    \/ \E m \in Markup \cup Entities :
          StartsWith(s, m) /\ WellEscaped(SubSeq(s, Len(m) + 1, Len(s)))

\* C16: in the HTML output every & < > " ' that comes from block content or
\* from a property key or value appears in escaped form only; the markup
\* that is left unescaped is what the converter generates itself.
C16_HtmlEscaped ==
    (Converted /\ result.format = "html") => WellEscaped(result.content)

\* a link whose target holds a double quote was converted, the quote escaped
C16_Witness ==
    /\ Converted /\ result.format = "html"
    /\ block.content = <<"[","a","]","(","h","t","t","p",":","/","/","\"",")">>
    /\ result.content = <<"<","a"," ","h","r","e","f","=","\"","h","t","t","p",":","/","/","&","q","u","o","t",";","\"",">","a","<","/","a",">">>

-----------------------------------------------------------------------------
(* The list structure of the HTML output.                                  *)

RECURSIVE ProperlyNested(_, _)
\* the <ul>, </ul>, <li>, </li> tags of s are balanced, each <li> lying
\* directly within a <ul>; open is the stack of the elements left open
ProperlyNested(s, open) ==
    IF s = <<>> THEN open = <<>>
    ELSE IF StartsWith(s, <<"<","u","l",">">>)
    THEN ProperlyNested(SubSeq(s, 5, Len(s)), Append(open, "ul"))
    ELSE IF StartsWith(s, <<"<","l","i",">">>)
    THEN /\ open # <<>> /\ open[Len(open)] = "ul"
         /\ ProperlyNested(SubSeq(s, 5, Len(s)), Append(open, "li"))
    ELSE IF StartsWith(s, <<"<","/","u","l",">">>)
    THEN /\ open # <<>> /\ open[Len(open)] = "ul"
         /\ ProperlyNested(SubSeq(s, 6, Len(s)), SubSeq(open, 1, Len(open) - 1))
    ELSE IF StartsWith(s, <<"<","/","l","i",">">>)
    THEN /\ open # <<>> /\ open[Len(open)] = "li"
         /\ ProperlyNested(SubSeq(s, 6, Len(s)), SubSeq(open, 1, Len(open) - 1))
    ELSE ProperlyNested(Tail(s), open)

RECURSIVE ListOfChildren(_), ListItems(_)
\* one <ul> holding the children, for a block that has children
ListOfChildren(b) ==
    IF b.children = <<>> THEN <<>>
    ELSE <<"<","u","l",">">> \o ListItems(b.children) \o <<"<","/","u","l",">">>

\* one <li> for each child, in child order, each holding the content of the
\* child and the list of its own children
ListItems(children) ==
    IF children = <<>> THEN <<>>
    ELSE <<"<","l","i",">">> \o HtmlConvertBlockContent(Head(children).content)
         \o ListOfChildren(Head(children)) \o <<"<","/","l","i",">">>
         \o ListItems(Tail(children))

\* C17: with includeChildren the HTML output is the content of the root,
\* unwrapped, and for every block that has children one <ul> holding one <li>
\* for each child in child order, recursively; the <ul>, </ul>, <li>, </li>
\* tags of the output are balanced and properly nested, whatever the tree
\* and the options.
C17_HtmlListStructure ==
    (Converted /\ result.format = "html")
    => /\ ProperlyNested(result.content, <<>>)
       /\ (options.includeChildren /\ ~options.maxDepth.set)
          => result.content
             = HtmlConvertBlockContent(block.content) \o ListOfChildren(block)

\* a root with two children, the first of which has a child, was converted
C17_Witness ==
    /\ Converted /\ result.format = "html"
    /\ options.includeChildren /\ ~options.maxDepth.set
    /\ result.content = <<"a","<","u","l",">","<","l","i",">","a","<","u","l",">","<","l","i",">","a","<","/","l","i",">","<","/","u","l",">","<","/","l","i",">","<","l","i",">","a","<","/","l","i",">","<","/","u","l",">">>

-----------------------------------------------------------------------------
(* Blocks with properties, exported with and without includeProperties.    *)

\* The root block has at most MaxProperties properties.
MaxProperties == 2

\* property keys, none of which occurs in a content or in generated markup
KeyNames == <<"K", "Q", "J", "Z">>

\* a string, the empty string, null
PropertyValues ==
    { [isNull |-> FALSE, text |-> <<"V">>],
      [isNull |-> FALSE, text |-> <<>>],
      [isNull |-> TRUE, text |-> <<>>] }

RECURSIVE PropertySeqs(_, _)
\* block.properties: at most n entries with different keys, in any order
PropertySeqs(keys, n) ==
    IF n = 0 THEN {<<>>}
    ELSE {<<>>} \cup UNION {{<<[key |-> <<k>>, value |-> v]>> \o rest :
                                 v \in PropertyValues,
                                 rest \in PropertySeqs(keys \ {k}, n - 1)} :
                              k \in keys}

PropertyKeys == {KeyNames[i] : i \in 1..Min({MaxProperties, Len(KeyNames)})}

\* a root with properties, alone or with one child that has at most one
\* property and content or none
PropertyBlocks ==
    {[uuid |-> <<>>, content |-> PlainContent, children |-> ch, properties |-> ps] :
        ps \in PropertySeqs(PropertyKeys, MaxProperties),
        ch \in {<<>>} \cup
               {<<[uuid |-> <<1>>, content |-> c, children |-> <<>>, properties |-> qs]>> :
                   c \in {PlainContent, <<>>}, qs \in PropertySeqs(PropertyKeys, 1)}}

InitProperties ==
    /\ ParserIdle
    /\ block \in PropertyBlocks
    /\ options \in {[includeChildren |-> ic, includeProperties |-> ip,
                     maxDepth |-> NoMaxDepth] : ic \in BOOLEAN, ip \in BOOLEAN}
    /\ result = NoResult
    /\ listDepthOffset = Null
    /\ enteredWith = Null
    /\ CallsIdle

NextProperties == ExportMarkdown \/ ExportAsciiDoc \/ ExportHtml

SpecProperties == InitProperties /\ [][NextProperties]_vars

\* the characters of s that are in chars, in their order
Only(s, chars) ==
    Concat([i \in 1..Len(s) |-> IF s[i] \in chars THEN <<s[i]>> ELSE <<>>])

\* the characters of property keys and values
PropertyChars == {KeyNames[i] : i \in 1..Len(KeyNames)} \cup {"V"}

\* how often the label of a Properties section occurs in s
LabelCount(s) ==
    Cardinality({i \in 1..Len(s) : StartsWith(SubSeq(s, i, Len(s)), <<"P","r","o","p","e","r","t","i","e","s",":">>)})

RECURSIVE PairsOf(_)
\* key and value of the properties whose value is not null, in map order
PairsOf(properties) ==
    IF properties = <<>> THEN <<>>
    ELSE (IF Head(properties).value.isNull THEN <<>>
          ELSE Head(properties).key \o Head(properties).value.text)
         \o PairsOf(Tail(properties))

\* the blocks an export with the given options writes
WrittenBlocks(b, opts) == IF opts.includeChildren THEN AllBlocks(b) ELSE {b}

\* the keys and values the output is to list: those of the root, then those
\* of the child
PairsOfBlocks(b, opts) ==
    PairsOf(b.properties)
    \o (IF opts.includeChildren /\ b.children # <<>>
        THEN PairsOf(b.children[1].properties) ELSE <<>>)

\* C18: each converter emits the Properties section of a block only when
\* includeProperties is set and the block has a property, and lists in it the
\* pairs whose value is not null, in map order; without includeProperties the
\* output holds no Properties label and no property key or value.
C18_PropertiesSection ==
    Converted
    => IF options.includeProperties
       THEN /\ LabelCount(result.content)
               = Cardinality({b \in WrittenBlocks(block, options) : b.properties # <<>>})
            /\ Only(result.content, PropertyChars) = PairsOfBlocks(block, options)
       ELSE /\ LabelCount(result.content) = 0
            /\ Only(result.content, PropertyChars) = <<>>

\* a root whose second property is null was exported with its properties
C18_Witness ==
    /\ Converted /\ result.format = "markdown"
    /\ options.includeProperties
    /\ Len(block.properties) = 2
    /\ block.properties[2].value.isNull
    /\ result.content = <<"a","\n","*","*","P","r","o","p","e","r","t","i","e","s",":","*","*","\n","-"," ","*","*","Q","*","*",":"," ","V">>

-----------------------------------------------------------------------------
(* ExportService against a host whose calls return a block, return null or *)
(* throw.  A behaviour is one export operation, in two steps: its awaited   *)
(* retrievals, then the conversion of what was retrieved.                  *)

\* The block tree of the host has at most ServiceMaxNodes blocks.
ServiceMaxNodes == 3

\* what a call of the host (logseq.Editor) does
HostOutcomes == {"ok", "absent", "throws"}

Formats == {"markdown", "asciidoc", "html"}

\* a block the retrieval returned, and the null it returns otherwise
Found(b) == [found |-> TRUE, block |-> b]

NotFound == [found |-> FALSE]

\* LogseqAPI.transformBlock(rawBlock): the block without children
transformBlock(rawBlock) == [rawBlock EXCEPT !.children = <<>>]

RECURSIVE transformBlockWithChildrenInclusive(_, _, _)
\* transformBlockWithChildren attaching children while currentDepth <= maxDepth
transformBlockWithChildrenInclusive(rawBlock, currentDepth, maxDepth) ==
    IF currentDepth <= maxDepth /\ Len(rawBlock.children) > 0
    THEN [rawBlock EXCEPT !.children =
             [i \in 1..Len(rawBlock.children) |->
                 transformBlockWithChildrenInclusive(rawBlock.children[i],
                                                     currentDepth + 1, maxDepth)]]
    ELSE transformBlock(rawBlock)

RECURSIVE transformBlockWithChildren(_, _, _)
\* LogseqAPI.transformBlockWithChildren(rawBlock, currentDepth, maxDepth)
transformBlockWithChildren(rawBlock, currentDepth, maxDepth) ==
    IF currentDepth < maxDepth /\ Len(rawBlock.children) > 0
    THEN [rawBlock EXCEPT !.children =
             [i \in 1..Len(rawBlock.children) |->
                 transformBlockWithChildren(rawBlock.children[i], currentDepth + 1, maxDepth)]]
    ELSE transformBlock(rawBlock)

\* LogseqAPI.getCurrentBlock(): null when the host has no current block and
\* when the host call throws
getCurrentBlock(outcome, tree) ==
    IF outcome = "ok" THEN Found(transformBlock(tree)) ELSE NotFound

\* LogseqAPI.getBlockWithChildren(uuid, maxDepth): null when the host has no
\* such block and when the host call throws
getBlockWithChildren(outcome, tree, maxDepth) ==
    IF outcome = "ok" THEN Found(transformBlockWithChildren(tree, 0, maxDepth))
    ELSE NotFound

\* LogseqAPI.getCurrentPageBlocks(): [] when the host has no current page and
\* when a host call throws
getCurrentPageBlocks(outcome, page) ==
    IF outcome = "ok"
    THEN [i \in 1..Len(page) |-> transformBlockWithChildren(page[i], 0, 10)]
    ELSE <<>>

\* options.maxDepth || 10
MaxDepthOr10(opts) ==
    IF opts.maxDepth.set /\ opts.maxDepth.value # 0 THEN opts.maxDepth.value ELSE 10

\* no operation was called yet on the host with the given current block and page
ServiceAt(tree, page) ==
    [op |-> "none", tree |-> tree, page |-> page, outcome |-> "none",
     getCurrentBlock |-> "notCalled", getBlock |-> "notCalled",
     getCurrentPage |-> "notCalled",
     format |-> "none", options |-> NoOptions, blocks |-> <<>>]

\* The operation was called with options (options.format = format) and its
\* awaited retrievals are over, calls telling what each host call did: without
\* a block it ends in its catch clause, which throws the error again;
\* otherwise the blocks are left to be converted.
Retrieved(op, format, opts, blocks, calls) ==
    [service EXCEPT !.op = op,
                    !.outcome = IF blocks = <<>> THEN "threw" ELSE "retrieved",
                    !.getCurrentBlock = calls.getCurrentBlock,
                    !.getBlock = calls.getBlock,
                    !.getCurrentPage = calls.getCurrentPage,
                    !.format = format, !.options = opts, !.blocks = blocks]

\* the host calls an operation made
Calls(current, getBlock, getPage) ==
    [getCurrentBlock |-> current, getBlock |-> getBlock, getCurrentPage |-> getPage]

\* the block of a retrieval as a list, empty when the retrieval returned null
ListOf(retrieved) == IF retrieved.found THEN <<retrieved.block>> ELSE <<>>

\* exportCurrentBlock: blockToExport, withChildren being what
\* getBlockWithChildren returns; without a current block the operation throws
BlockToExport(opts, currentBlock, withChildren) ==
    IF ~currentBlock.found THEN NotFound
    ELSE IF opts.includeChildren /\ withChildren.found THEN withChildren
    ELSE currentBlock

\* ExportService.exportCurrentBlock(options), up to the call of this.convertBlock
exportCurrentBlock(format, opts, current, getBlock) ==
    /\ service.op = "none"
    /\ service' = Retrieved("exportCurrentBlock", format, opts,
                            ListOf(BlockToExport(opts,
                                                 getCurrentBlock(current, service.tree),
                                                 getBlockWithChildren(getBlock, service.tree,
                                                                      MaxDepthOr10(opts)))),
                            Calls(current,
                                  IF current = "ok" /\ opts.includeChildren THEN getBlock
                                  ELSE "notCalled",
                                  "notCalled"))
    /\ UNCHANGED parserVars
    /\ UNCHANGED converterVars
    /\ UNCHANGED conversions

\* exportBlock: the block looked up, with its children or alone
BlockOfUuid(opts, getBlock, tree) ==
    IF opts.includeChildren THEN getBlockWithChildren(getBlock, tree, MaxDepthOr10(opts))
    ELSE IF getBlock = "ok" THEN Found(transformBlock(tree))
    ELSE NotFound

\* ExportService.exportBlock(uuid, options), uuid being that of the host's
\* tree, up to the call of this.convertBlock
exportBlock(format, opts, getBlock) ==
    /\ service.op = "none"
    /\ service' = Retrieved("exportBlock", format, opts,
                            ListOf(BlockOfUuid(opts, getBlock, service.tree)),
                            Calls("notCalled", getBlock, "notCalled"))
    /\ UNCHANGED parserVars
    /\ UNCHANGED converterVars
    /\ UNCHANGED conversions

\* ExportService.exportCurrentPage(options), up to the loop over the blocks
exportCurrentPage(format, opts, getPage) ==
    /\ service.op = "none"
    /\ service' = Retrieved("exportCurrentPage", format, opts,
                            getCurrentPageBlocks(getPage, service.page),
                            Calls("notCalled", "notCalled", getPage))
    /\ UNCHANGED parserVars
    /\ UNCHANGED converterVars
    /\ UNCHANGED conversions

\* ExportService.convertBlock(block, options) with options.format = format:
\* the result, and the static offset of the AsciiDoc converter afterwards
ConvertedBy(format, b, opts, offset) ==
    CASE format = "markdown" -> [result |-> MdConvertBlock(b, opts), offset |-> offset]
      [] format = "asciidoc" -> AdocConvertBlock(b, opts, offset)
      [] format = "html"     -> [result |-> HtmlConvertBlock(b, opts), offset |-> offset]

RECURSIVE ConvertedBlocks(_, _, _, _)
\* this.convertBlock(block, options) for each of the blocks, one after the other
ConvertedBlocks(format, blocks, opts, offset) ==
    IF blocks = <<>> THEN <<>>
    ELSE <<ConvertedBy(format, Head(blocks), opts, offset)>>
         \o ConvertedBlocks(format, Tail(blocks), opts, Null)

RECURSIVE SumBlockCounts(_)
SumBlockCounts(converted) ==
    IF converted = <<>> THEN 0
    ELSE Head(converted).result.blockCount + SumBlockCounts(Tail(converted))

\* the ExportResult exportCurrentPage returns
PageExportResult(format, converted) ==
    [format     |-> format,
     content    |-> Join([i \in 1..Len(converted) |-> converted[i].result.content],
                         <<"\n", "\n">>),
     blockCount |-> SumBlockCounts(converted),
     pieces     |-> Concat([i \in 1..Len(converted) |-> converted[i].result.pieces])]

\* The rest of the operation once its retrievals are over: the blocks are
\* converted and the result is returned, that of the one block or, for
\* exportCurrentPage, the results of the blocks joined.  block, options and the
\* static offset are left as the last convertBlock call leaves them.
ReturnExported(converted) ==
    /\ service' = [service EXCEPT !.outcome = "returned"]
    /\ block' = service.blocks[Len(service.blocks)]
    /\ options' = service.options
    /\ result' = IF service.op = "exportCurrentPage"
                 THEN PageExportResult(service.format, converted)
                 ELSE converted[1].result
    /\ listDepthOffset' = converted[Len(converted)].offset
    /\ enteredWith' =
          IF service.format # "asciidoc" THEN enteredWith
          ELSE IF Len(converted) = 1 THEN listDepthOffset
          ELSE converted[Len(converted) - 1].offset
    /\ UNCHANGED parserVars
    /\ UNCHANGED conversions

ReturnExport ==
    /\ service.outcome = "retrieved"
    /\ \E converted \in {ConvertedBlocks(service.format, service.blocks, service.options,
                                         listDepthOffset)} :
           ReturnExported(converted)

ServiceBlocks == Blocks({PlainContent}, {PlainContent}, ServiceMaxNodes)

ServiceOptions == ExportOptions(BOOLEAN, {NoMaxDepth, [set |-> TRUE, value |-> 1]})

InitService ==
    /\ ParserIdle
    /\ block = NoBlock
    /\ options = NoOptions
    /\ result = NoResult
    /\ listDepthOffset = Null
    /\ enteredWith = Null
    /\ conversions = <<>>
    /\ service \in {ServiceAt(tree, <<tree>>) : tree \in ServiceBlocks}
                   \cup {ServiceAt(tree, <<tree, tree>>) : tree \in ServiceBlocks}

NextService ==
    \/ \E format \in Formats, opts \in ServiceOptions, current, getBlock \in HostOutcomes :
          exportCurrentBlock(format, opts, current, getBlock)
    \/ \E format \in Formats, opts \in ServiceOptions, getBlock \in HostOutcomes :
          exportBlock(format, opts, getBlock)
    \/ \E format \in Formats, opts \in ServiceOptions, getPage \in HostOutcomes :
          exportCurrentPage(format, opts, getPage)
    \/ ReturnExport

SpecService == InitService /\ [][NextService]_vars

\* a retrieval of the operation failed: the host had no block or page, or the
\* host call threw
RetrievalFailed ==
    \/ service.getCurrentBlock \in {"absent", "throws"}
    \/ service.getBlock \in {"absent", "throws"}
    \/ service.getCurrentPage \in {"absent", "throws"}

\* C19: every export operation of ExportService reports a retrieval failure
\* (block absent, or the host call throws) to its caller as a thrown error; it
\* never returns an ExportResult built from empty or partial content.
C19_RetrievalFailureThrown ==
    (RetrievalFailed /\ service.outcome \in {"returned", "threw"})
    => service.outcome = "threw"

\* the same of exportBlock and exportCurrentPage only: it holds
OtherOperationsThrow ==
    (service.op \in {"exportBlock", "exportCurrentPage"} /\ RetrievalFailed)
    => service.outcome = "threw"

-----------------------------------------------------------------------------
(* One AsciiDoc conversion block visit by block visit, on trees whose       *)
(* blocks hold plain text, headings, fenced code blocks, and text followed  *)
(* by a fenced code block.                                                  *)

\* A block tree of this specification has at most VisitMaxNodes blocks.
VisitMaxNodes == 3

\* a line of text and, on the next line, a fenced code block
TextThenCodeContent == <<"a","\n">> \o CodeContent

VisitContents ==
    {PlainContent, HeadingContent, <<>>, CodeContent, TextThenCodeContent}

InitVisits == InitInterleave

NextVisits ==
    \/ \E b \in Blocks(VisitContents, VisitContents, VisitMaxNodes) :
           EnterConvertBlock(1, b, InterleaveOptions)
    \/ VisitBlock(1)
    \/ ReturnResult(1)

SpecVisits == InitVisits /\ [][NextVisits]_vars

\* the step is a processBlock visit of conversion 1
VisitStep ==
    /\ conversions[1].state = "running"
    /\ conversions[1].pending # <<>>
    /\ conversions'[1].state = "running"
    /\ conversions'[1].pending # conversions[1].pending

\* the block the next visit processes, and its depth
NextVisited == Head(conversions[1].pending).block

NextDepth == Head(conversions[1].pending).depth

\* the text the visit pushed onto lines, <<>> if it pushed none
PushedText ==
    IF Len(conversions'[1].lines) > Len(conversions[1].lines)
    THEN conversions'[1].lines[Len(conversions'[1].lines)].text
    ELSE <<>>

\* LogseqParser.parse found a fenced code block in the content
HasCodeBlock(c) ==
    \E k \in 1..Len(Parse(c)) : Parse(c)[k].type = "codeBlock"

\* the AsciiDoc rendering of the first fenced code block of the content
RenderedCode(c) ==
    AdocGenerateCodeBlock(
        Parse(c)[CHOOSE k \in 1..Len(Parse(c)) :
                    /\ Parse(c)[k].type = "codeBlock"
                    /\ \A j \in 1..(k - 1) : Parse(c)[j].type # "codeBlock"])

\* the code block is in the text as rendered, not preceded by a list marker,
\* and no line of it carries anything in front or behind
EmittedUnindented(text, code) ==
    /\ MarkerOf(text) = 0
    /\ \/ text = code
       \/ \E i \in 0..(Len(text) - Len(code)) :
             /\ OccursAt(text, code, i)
             /\ i > 0 => text[i] = "\n"
             /\ MarkerOf(Substring(text, Min({i, 1}))) = 0

\* C21: in an AsciiDoc conversion the visit of a block that holds a fenced
\* code block pushes the code block without list marker or indentation, at
\* any depth, and leaves listDepthOffset as it was.
C21_CodeBlockKeepsOffset ==
    [][(VisitStep /\ HasCodeBlock(NextVisited.content))
       => /\ EmittedUnindented(PushedText, RenderedCode(NextVisited.content))
          /\ listDepthOffset' = listDepthOffset]_vars

\* The same for the blocks whose content starts with the fenced code block:
\* the visit pushes a line break and the rendered content, and the offset
\* stays.
CodeBlockAtStartKeepsOffset ==
    [][(VisitStep /\ IsCodeBlock(NextVisited))
       => /\ PushedText = <<"\n">> \o AdocConvertLogseqSyntax(NextVisited.content)
          /\ MarkerOf(Substring(PushedText, 1)) = 0
          /\ listDepthOffset' = listDepthOffset]_vars

-----------------------------------------------------------------------------
(* AsciiDoc conversion of multi-line blocks: the block under study is the  *)
(* last one of a chain whose other blocks hold plain text.                 *)

\* The lines of a content: text, a zero-length line, a whitespace-only line,
\* a blockquote, a blockquote with an author, a line that starts with a
\* quote character, a line that starts with two dashes, a heading, a task.
AdocContentLines ==
    {<<"a">>, <<>>, <<" ">>, <<">","a">>, <<">","a","a"," ","-"," ","b">>,
     <<"\"","a">>, <<"-","-","a">>, <<"#"," ","a">>, <<"T","O","D","O"," ","a">>}

RECURSIVE AdocLinesOf(_)
\* the sequences of n lines
AdocLinesOf(n) ==
    IF n = 0 THEN {<<>>}
    ELSE {<<line>> \o rest : line \in AdocContentLines, rest \in AdocLinesOf(n - 1)}

\* the contents of one to MaxLines lines, a fenced code block, and text
\* followed by a fenced code block
AdocLineContents ==
    {Join(lines, <<"\n">>) : lines \in UNION {AdocLinesOf(n) : n \in 1..MaxLines}}
    \cup {CodeContent, TextThenCodeContent}

InitAdocLines ==
    /\ ParserIdle
    /\ block \in {ChainTo(<<>>, c, d) : c \in AdocLineContents, d \in 0..MaxLineDepth}
    /\ options \in ExportOptions({TRUE}, {NoMaxDepth})
    /\ result = NoResult
    /\ listDepthOffset = Null
    /\ enteredWith = Null
    /\ CallsIdle

NextAdocLines == ExportAsciiDoc

SpecAdocLines == InitAdocLines /\ [][NextAdocLines]_vars

\* converted.includes('\n"') && converted.includes('\n--')
hasQuoteBlock(converted) ==
    Includes(converted, <<"\n","\"">>) /\ Includes(converted, <<"\n","-","-">>)

\* line ends with ' +'
EndsWithMark(line) ==
    Len(line) >= 2 /\ SubSeq(line, Len(line) - 1, Len(line)) = <<" ","+">>

\* every line of rendered but the last carries a continuation mark: ' +' at
\* the end of a line that is not empty, a '+' line before a line that is
RECURSIVE AllButLastMarked(_, _)
AllButLastMarked(rendered, j) ==
    IF j >= Len(rendered) THEN TRUE
    ELSE /\ \/ rendered[j] = <<"+">> /\ Trim(rendered[j + 1]) = <<>>
            \/ Trim(rendered[j]) = <<>> /\ j > 1 /\ rendered[j - 1] = <<"+">>
            \/ Trim(rendered[j]) # <<>> /\ rendered[j] # <<"+">> /\ EndsWithMark(rendered[j])
         /\ AllButLastMarked(rendered, j + 1)

\* the lines j .. of rendered with the continuation marks taken away
RECURSIVE WithoutMarks(_, _)
WithoutMarks(rendered, j) ==
    IF j > Len(rendered) THEN <<>>
    ELSE IF j = Len(rendered) THEN <<rendered[j]>>
    ELSE IF rendered[j] = <<"+">> THEN WithoutMarks(rendered, j + 1)
    ELSE IF EndsWithMark(rendered[j])
    THEN <<SubSeq(rendered[j], 1, Len(rendered[j]) - 2)>> \o WithoutMarks(rendered, j + 1)
    ELSE <<rendered[j]>> \o WithoutMarks(rendered, j + 1)

\* text is the lines with a continuation mark on every line but the last,
\* the first line behind whatever the converter put in front of it
ContinuationMarked(text, lines) ==
    /\ AllButLastMarked(Split(text, "\n"), 1)
    /\ Len(WithoutMarks(Split(text, "\n"), 1)) = Len(lines)
    /\ Tail(WithoutMarks(Split(text, "\n"), 1)) = Tail(lines)
    /\ Len(lines) > 1 => Split(text, "\n")[Len(Split(text, "\n"))] = lines[Len(lines)]

\* the block has multi-line content in which no attributed quote is detected
MultiLineUnquoted(b) ==
    /\ ~IsBlank(b.content)
    /\ Len(Split(b.content, "\n")) > 1
    /\ ~hasQuoteBlock(AdocConvertLogseqSyntax(b.content))

\* C22 as stated: every block with multi-line content in which no attributed
\* quote block is detected is emitted with a continuation mark on every
\* rendered line but the last.
C22_ContinuationMarksAsStated ==
    AdocExported
    => \A b \in AllBlocks(block) :
          MultiLineUnquoted(b)
          => /\ PieceIndex(b) > 0
             /\ ContinuationMarked(EmittedText(b),
                                   Split(AdocConvertLogseqSyntax(b.content), "\n"))

\* the converter emits the block as a list item: it lies at depth >= 1, and
\* its rendered content neither starts with a heading line nor with [source
EmittedAsListItem(b) ==
    /\ DepthOf(b) >= 1
    /\ ~IsBlank(b.content)
    /\ ~isHeading(Split(AdocConvertLogseqSyntax(b.content), "\n")[1])
    /\ ~StartsWith(AdocConvertLogseqSyntax(b.content), <<"[","s","o","u","r","c","e">>)

\* C22 amended: every block that is emitted as a list item and has multi-line
\* content in which no attributed quote block is detected carries a
\* continuation mark on every rendered line but the last (' +' appended to a
\* non-empty line, a separate '+' line before an empty line) and none on the
\* last line.
C22_ContinuationMarks ==
    AdocExported
    => \A b \in AllBlocks(block) :
          (EmittedAsListItem(b) /\ MultiLineUnquoted(b))
          => /\ PieceIndex(b) > 0
             /\ ContinuationMarked(EmittedText(b),
                                   Split(AdocConvertLogseqSyntax(b.content), "\n"))

\* C22: a block at depth 1 holding a, a zero-length line and a was emitted as
\* '* a +', '+', the zero-length line and 'a'.
C22_Witness ==
    /\ AdocExported
    /\ \E b \in AllBlocks(block) :
          /\ DepthOf(b) = 1
          /\ b.content = <<"a","\n","\n","a">>
          /\ PieceIndex(b) > 0
          /\ EmittedText(b) = <<"*"," ","a"," ","+","\n","+","\n","\n","a">>

-----------------------------------------------------------------------------
(* Heading detection in the AsciiDoc and the HTML converter: the block     *)
(* under study is the last one of a chain whose other blocks hold plain    *)
(* text.                                                                   *)

\* The block under study lies at depth 0 .. MaxHeadingDepth.
MaxHeadingDepth == 1

\* First lines: headings of level 1 and 6, seven # characters, a tag, a bare
\* heading, a lone #, a heading behind a space, plain text, a highlight whose
\* text starts with a space, a highlight, a link to a page named like a
\* heading.
HeadingFirstLines ==
    {<<"#"," ","a">>, <<"#","#","#","#","#","#"," ","a">>,
     <<"#","#","#","#","#","#","#"," ","a">>, <<"#","a">>, <<"#"," ">>, <<"#">>,
     <<" ","#"," ","a">>, <<"a">>, <<"=","="," ","a","=","=">>,
     <<"=","=","a","=","=">>, <<"[","#"," ","a","]","(","b",")">>}

\* what follows the first line: nothing, a line of text, a heading line
HeadingRests == {<<>>, <<"\n","b">>, <<"\n","#"," ","b">>}

HeadingContents == {first \o rest : first \in HeadingFirstLines, rest \in HeadingRests}

InitHeadings ==
    /\ ParserIdle
    /\ block \in {ChainTo(<<>>, c, d) : c \in HeadingContents, d \in 0..MaxHeadingDepth}
    /\ options \in ExportOptions({TRUE}, {NoMaxDepth})
    /\ result = NoResult
    /\ listDepthOffset = Null
    /\ enteredWith = Null
    /\ CallsIdle

NextHeadings == ExportAsciiDoc \/ ExportHtml

SpecHeadings == InitHeadings /\ [][NextHeadings]_vars

\* the AsciiDoc converter took the heading branch for a block at depth >= 1:
\* the text carries no list marker and is no code block
AdocTreatedAsHeading(b) ==
    /\ MarkerOf(EmittedText(b)) = 0
    /\ ~StartsWith(EmittedText(b), <<"\n","[","s","o","u","r","c","e">>)

\* the HTML converter took the heading branch: the first line went through
\* convertToHeading, the other lines were converted apart from it
HtmlTreatedAsHeading(b) ==
    EmittedText(b) = HtmlHeadingContent(Split(b.content, "\n"),
                                        convertToHeading(FirstLineOf(b)))

\* the HTML converter converted the content as a whole
HtmlTreatedAsText(b) ==
    EmittedText(b) = WithBreaks(HtmlConvertLogseqSyntax(b.content))

\* C23: the AsciiDoc and the HTML converter treat a block as a heading
\* exactly when the first line of its content matches 1 to 6 # characters
\* followed by whitespace; both classify every block the same way.
C23_HeadingDetectionShared ==
    \A b \in AllBlocks(block) :
        /\ (AdocExported /\ DepthOf(b) >= 1 /\ PieceIndex(b) > 0)
           => (AdocTreatedAsHeading(b) <=> IsHeadingBlock(b))
        /\ (result.format = "html" /\ PieceIndex(b) > 0)
           => IF IsHeadingBlock(b) THEN HtmlTreatedAsHeading(b) ELSE HtmlTreatedAsText(b)

\* The HTML converter alone classifies by the first line of the content.
HtmlHeadingByContent ==
    \A b \in AllBlocks(block) :
        (result.format = "html" /\ PieceIndex(b) > 0)
        => IF IsHeadingBlock(b) THEN HtmlTreatedAsHeading(b) ELSE HtmlTreatedAsText(b)

\* The AsciiDoc converter classifies by the first line of the rendered content.
AdocHeadingByRenderedContent ==
    \A b \in AllBlocks(block) :
        (AdocExported /\ DepthOf(b) >= 1 /\ PieceIndex(b) > 0)
        => (AdocTreatedAsHeading(b)
            <=> isHeading(Split(AdocConvertLogseqSyntax(b.content), "\n")[1]))

-----------------------------------------------------------------------------
(* Claims about the line-start context of task markers and blockquotes.    *)

\* offset p of the content is the start of the content or follows a line break
AtLineStart(c, p) == p = 0 \/ c[p] = "\n"

\* a task keyword followed by whitespace stands at offset p of the content
KeywordAt(c, p) == TaskKeywordAt(Substring(c, p)) # 0

\* a token of one of the two types starts at offset p
LineTokenAt(toks, p) ==
    \E i \in 1..Len(toks) :
        /\ toks[i].type \in {"taskMarker", "blockquote"}
        /\ TokenStart(toks, i) = p

\* C24: every taskMarker and every blockquote token starts at offset 0 of the
\* content or directly after a line break, on a task keyword and on > ; at
\* no other offset does a token of these types start, whatever stands there.
C24_LineStartTokens ==
    /\ \A i \in 1..Len(tokens) :
          /\ tokens[i].type = "taskMarker"
             => /\ AtLineStart(content, TokenStart(tokens, i))
                /\ KeywordAt(content, TokenStart(tokens, i))
          /\ tokens[i].type = "blockquote"
             => /\ AtLineStart(content, TokenStart(tokens, i))
                /\ OccursAt(content, <<">">>, TokenStart(tokens, i))
    /\ \A p \in 1..(Len(content) - 1) :
          content[p] # "\n" => ~LineTokenAt(tokens, p)

\* C24: in 'TODO >' the keyword at offset 0 gave a task marker and the > behind
\* it, in the middle of the line, a text token.
C24_Witness ==
    /\ parsed
    /\ content = <<"T","O","D","O"," ",">">>
    /\ Len(tokens) = 2
    /\ tokens[1].type = "taskMarker"
    /\ tokens[2].type = "text"
    /\ tokens[2].value = <<">">>

-----------------------------------------------------------------------------
(* Claims about the order of the matchers.                                 *)

\* what each matcher returns at offset p, in the order parse tries them
MatchersAt(c, p) ==
    << tryMatchCodeBlock(c, p),
       tryMatchVideoEmbed(Substring(c, p)),
       tryMatchQuery(c, p),
       tryMatchTaskMarker(c, p),
       tryMatchBlockquote(c, p),
       tryMatchImage(c, p),
       tryMatchMarkdownLink(c, p),
       tryMatchBlockRef(c, p),
       tryMatchNakedUrl(c, p),
       tryMatchHighlight(c, p),
       tryMatchBold(c, p),
       tryMatchTag(c, p),
       matchText(c, p) >>

\* the token of the first matcher that succeeds at offset p
FirstNonNull(results) ==
    results[Min({k \in 1..Len(results) : ~IsNull(results[k])})]

FirstSuccess(c, p) == FirstNonNull(MatchersAt(c, p))

\* the types of the tokens that take a whole code block, macro or quote line
WholeSpanTypes == {"codeBlock", "query", "blockquote"}

\* no other token starts inside the span of token i
SpanUntokenized(toks, i) ==
    \A j \in 1..Len(toks) :
        j # i => ~(/\ TokenStart(toks, j) > TokenStart(toks, i)
                   /\ TokenStart(toks, j) < TokenStart(toks, i) + toks[i].length)

\* the span of token i runs to the end of what its matcher matched: the
\* closing fence, the closing braces, the end of the line
SpanComplete(c, toks, i) ==
    LET end == TokenStart(toks, i) + toks[i].length
    IN  CASE toks[i].type = "codeBlock"
               -> Slice(c, end - 3, end) = <<Backquote, Backquote, Backquote>>
          [] toks[i].type = "query"
               -> Slice(c, end - 2, end) = <<"}", "}">>
          [] toks[i].type = "blockquote"
               -> end = Len(c) \/ c[end + 1] = "\n"

\* C25: at every scan position parse pushes the token of the first matcher
\* that succeeds in the order code block, macro (video URL, youtube or vimeo
\* id, query), task marker, blockquote, image, link, double-bracket
\* reference, bare URL, highlight, bold, tag, text; a code block, query or
\* blockquote token spans all its matcher matched and no other token starts
\* inside it.
C25_FirstMatcherWins ==
    \A i \in 1..Len(tokens) :
        /\ tokens[i] = FirstSuccess(content, TokenStart(tokens, i))
        /\ tokens[i].type \in WholeSpanTypes
           => /\ SpanUntokenized(tokens, i)
              /\ SpanComplete(content, tokens, i)

\* C25: '{{query http://}}' gave one query token; the bare URL inside it did
\* not become a token of its own.
C25_Witness ==
    /\ parsed
    /\ content = <<"{","{","q","u","e","r","y"," ","h","t","t","p",":","/","/","}","}">>
    /\ Len(tokens) = 1
    /\ tokens[1].type = "query"
    /\ tokens[1].value = <<"h","t","t","p",":","/","/">>
    /\ ~IsNull(tryMatchNakedUrl(content, 8))

-----------------------------------------------------------------------------
(* Links and images with external and with internal targets, converted by  *)
(* the three converters.                                                   *)

\* Targets: with the two schemes, without a scheme, with another scheme, with
\* the scheme not at the start, in capitals, with one slash, without colon.
LinkTargets ==
    {<<"h","t","t","p",":","/","/","x">>, <<"h","t","t","p","s",":","/","/","x">>,
     <<"x">>, <<"f","t","p",":","/","/","x">>,
     <<"x","h","t","t","p",":","/","/","y">>, <<"H","T","T","P",":","/","/","x">>,
     <<"h","t","t","p",":","/","x">>, <<"/","/","x">>, <<"h","t","t","p","s","/","/","x">>}

\* [kind, text, target] of the link or image a content holds, with a text of
\* at most MaxLinkText characters; an image may have no alt text
MaxLinkText == 1

LinkParts ==
    {[kind |-> "link", text |-> [i \in 1..n |-> "a"], target |-> t] :
        n \in 1..MaxLinkText, t \in LinkTargets}
    \cup {[kind |-> "image", text |-> [i \in 1..n |-> "a"], target |-> t] :
             n \in 0..MaxLinkText, t \in LinkTargets}

\* the text before and behind the link or image
LinkBefore == {<<>>, <<"b"," ">>}

LinkBehind == {<<>>, <<" ","c">>}

\* the Logseq syntax of a link or image
LinkSyntax(part) ==
    (IF part.kind = "image" THEN <<"!">> ELSE <<>>)
    \o <<"[">> \o part.text \o <<"]","(">> \o part.target \o <<")">>

LinkContents ==
    {pre \o LinkSyntax(part) \o post :
        pre \in LinkBefore, part \in LinkParts, post \in LinkBehind}

InitLinks ==
    /\ ParserIdle
    /\ block \in {ChainTo(<<>>, c, 0) : c \in LinkContents}
    /\ options \in ExportOptions({TRUE}, {NoMaxDepth})
    /\ result = NoResult
    /\ listDepthOffset = Null
    /\ enteredWith = Null
    /\ CallsIdle

NextLinks == ExportMarkdown \/ ExportAsciiDoc \/ ExportHtml

SpecLinks == InitLinks /\ [][NextLinks]_vars

\* the content is the link or image between one text before and one behind
HoldsLink(c, part) ==
    \E pre \in LinkBefore, post \in LinkBehind : c = pre \o LinkSyntax(part) \o post

\* the target starts with http:// or https://
HasHttpScheme(target) ==
    \/ SubSeq(target, 1, Min({7, Len(target)})) = <<"h","t","t","p",":","/","/">>
    \/ SubSeq(target, 1, Min({8, Len(target)})) = <<"h","t","t","p","s",":","/","/">>

\* the native link or image syntax of a format
FunctionalForm(format, part) ==
    CASE format = "markdown" -> LinkSyntax(part)
      [] format = "asciidoc" ->
            (IF part.kind = "image" THEN <<"i","m","a","g","e",":",":">> ELSE <<>>)
            \o part.target \o <<"[">> \o part.text \o <<"]">>
      [] format = "html" ->
            IF part.kind = "image"
            THEN <<"<","i","m","g"," ","s","r","c","=","\"">> \o part.target
                 \o <<"\""," ","a","l","t","=","\"">> \o part.text \o <<"\""," ","/",">">>
            ELSE <<"<","a"," ","h","r","e","f","=","\"">> \o part.target \o <<"\"",">">>
                 \o part.text \o <<"<","/","a",">">>

\* the annotation behind a link or image turned into text
Annotation(part) ==
    IF part.kind = "image"
    THEN <<"(","l","o","c","a","l"," ","f","i","l","e",":"," ">> \o part.target \o <<")">>
    ELSE <<"(", ArrowSymbol, " ">> \o part.target \o <<")">>

\* the link and image tokens of a token sequence
LinkTokens(toks) ==
    {i \in 1..Len(toks) : toks[i].type \in {"markdownLink", "image"}}

-----------------------------------------------------------------------------
(* Blockquotes with and without an author, converted to AsciiDoc.          *)

MaxQuoteRun == 3

\* the limit on the length of an author in generateBlockquote
AuthorLimit == 50

RunOf(n) == [i \in 1..n |-> "a"]

QuoteRuns == {RunOf(n) : n \in 1..MaxQuoteRun}

\* the text before the hyphen: bare, in straight quotes, with an open quote
QuoteLefts ==
    QuoteRuns \cup {<<"\"">> \o r \o <<"\"">> : r \in QuoteRuns} \cup {<<"\"","a">>}

\* no hyphen, a bare hyphen, a hyphen with spaces around it
QuoteSeparators == {<<>>, <<"-">>, <<" ","-"," ">>, <<" ","-">>, <<" "," ","-"," "," ">>}

\* quote texts with one hyphen at most, with two hyphens, and with a right
\* part of AuthorLimit - 1 and of AuthorLimit characters
QuoteTexts ==
    {l \o s \o r : l \in QuoteLefts, s \in QuoteSeparators, r \in QuoteRuns \cup {<<>>}}
    \cup {l \o <<" ","-"," ">> \o m \o <<" ","-"," ">> \o r :
             l \in QuoteRuns, m \in QuoteRuns, r \in QuoteRuns}
    \cup {l \o <<" ","-"," ">> \o RunOf(n) :
             l \in {RunOf(AuthorLimit + 1), <<"\"","a","\"">>},
             n \in {AuthorLimit - 1, AuthorLimit}}

InitQuotes ==
    /\ ParserIdle
    /\ block \in {ChainTo(<<>>, <<">"," ">> \o q, 0) : q \in QuoteTexts}
    /\ options \in ExportOptions({TRUE}, {NoMaxDepth})
    /\ result = NoResult
    /\ listDepthOffset = Null
    /\ enteredWith = Null
    /\ CallsIdle

NextQuotes == ExportAsciiDoc

SpecQuotes == InitQuotes /\ [][NextQuotes]_vars

\* the quote text of the block: the content behind '> '
QuoteText == Substring(block.content, 2)

\* the 0-based offsets of the hyphens of q that have a character on both sides
Hyphens(q) == {h \in 1..(Len(q) - 2) : q[h + 1] = "-"}

\* q is "quote" - author: an opening quote, a closing quote at offset c behind
\* one character at least, white space, a hyphen, and one character at least
MatchesQuoted(q) ==
    /\ StartsWith(q, <<"\"">>)
    /\ \E c \in 2..(Len(q) - 1) :
          /\ q[c + 1] = "\""
          /\ \E h \in Hyphens(q) :
                /\ h > c
                /\ \A i \in (c + 1)..(h - 1) : q[i + 1] = " "

\* the right part of the split at hyphen h is shorter than AuthorLimit and
\* strictly shorter than the left part, both without the space around them
ShortAuthorAt(q, h) ==
    /\ Len(Trim(Substring(q, h + 1))) < AuthorLimit
    /\ Len(Trim(Substring(q, h + 1))) < Len(Trim(Slice(q, 0, h)))

\* a newline, the quoted line, the '-- author' line, a newline
IsAttributed(text) ==
    /\ StartsWith(text, <<"\n","\"">>)
    /\ Includes(text, <<"\"","\n","-","-"," ">>)
    /\ text[Len(text)] = "\n"

\* the text in straight quotes
Quoted(q) == <<"\"">> \o q \o <<"\"">>

\* C27 as stated: the blockquote is rendered as an attributed quote block
\* when its text matches "quote" - author or splits at some hyphen into a left
\* part and a right part that is shorter than 50 characters and strictly
\* shorter than the left part, and in straight quotes in every other case.
C27_AttributedQuoteAsStated ==
    AdocExported
    => IF MatchesQuoted(QuoteText) \/ \E h \in Hyphens(QuoteText) : ShortAuthorAt(QuoteText, h)
       THEN IsAttributed(result.content)
       ELSE result.content = Quoted(QuoteText)

\* C27: the blockquote is rendered as an attributed quote block when its text
\* matches "quote" - author, or when the split at its first hyphen that has a
\* character before it gives a right part that is shorter than 50 characters
\* and strictly shorter than the left part, both trimmed; the block then holds
\* the trimmed left part in quotes and the trimmed right part behind '-- '.
\* In every other case the text is rendered in straight quotes.
C27_AttributedQuote ==
    AdocExported
    => IF MatchesQuoted(QuoteText)
       THEN IsAttributed(result.content)
       ELSE IF Hyphens(QuoteText) # {} /\ ShortAuthorAt(QuoteText, Min(Hyphens(QuoteText)))
       THEN result.content =
               <<"\n">> \o Quoted(Trim(Slice(QuoteText, 0, Min(Hyphens(QuoteText)))))
               \o <<"\n","-","-"," ">>
               \o Trim(Substring(QuoteText, Min(Hyphens(QuoteText)) + 1)) \o <<"\n">>
       ELSE result.content = Quoted(QuoteText)

\* C27: 'a - aa - a' was rendered in straight quotes: at its first hyphen the
\* right part is the longer one, at its second hyphen the shorter one.
C27_Witness ==
    /\ AdocExported
    /\ QuoteText = <<"a"," ","-"," ","a","a"," ","-"," ","a">>
    /\ result.content = Quoted(QuoteText)
    /\ ShortAuthorAt(QuoteText, 7)
    /\ ~ShortAuthorAt(QuoteText, 2)

-----------------------------------------------------------------------------
(* One AsciiDoc conversion visit by visit, on trees whose blocks hold text  *)
(* of several kinds: the list marker of the blocks below the root.          *)

MarkerMaxNodes == 3

\* the text [source, which is no fenced code block
SourceTextContent == <<"[","s","o","u","r","c","e">>

\* a highlight whose text starts with a space: rendered as '# a#'
HighlightContent == <<"=","="," ","a","=","=">>

\* a quote with an author
QuoteContent == <<">"," ","\"","a","a","\""," ","-"," ","b">>

MarkerContents ==
    {PlainContent, HeadingContent, <<>>, <<" ">>, CodeContent, TodoContent,
     SourceTextContent, HighlightContent, QuoteContent}

InitMarkers == InitInterleave

NextMarkers ==
    \/ \E b \in Blocks(MarkerContents, MarkerContents, MarkerMaxNodes) :
           EnterConvertBlock(1, b, InterleaveOptions)
    \/ VisitBlock(1)
    \/ ReturnResult(1)

SpecMarkers == InitMarkers /\ [][NextMarkers]_vars

\* the text starts with a list marker: one asterisk at least, then a space
HasListMarker(text) ==
    /\ MarkerOf(text) >= 1
    /\ OccursAt(text, <<" ">>, MarkerOf(text))

\* C28: in an AsciiDoc conversion the visit of a block at depth >= 1 whose
\* content is not blank, whose first line is no heading and which holds no
\* fenced code block pushes a text that starts with a list marker of at
\* least one asterisk.
C28_ListMarker ==
    [][(/\ VisitStep
        /\ NextDepth >= 1
        /\ ~IsBlank(NextVisited.content)
        /\ ~isHeading(FirstLineOf(NextVisited))
        /\ ~HasCodeBlock(NextVisited.content))
       => HasListMarker(PushedText)]_vars

\* The same for the blocks whose rendered content neither starts with a
\* heading line nor with [source: these carry the marker.
RenderedAsItemHasListMarker ==
    [][(/\ VisitStep
        /\ NextDepth >= 1
        /\ ~IsBlank(NextVisited.content)
        /\ ~isHeading(Split(AdocConvertLogseqSyntax(NextVisited.content), "\n")[1])
        /\ ~StartsWith(AdocConvertLogseqSyntax(NextVisited.content), SourceTextContent))
       => HasListMarker(PushedText)]_vars

\* The text [source at depth >= 1 is pushed behind a line break, without a
\* marker.
SourceTextUnmarked ==
    [][(VisitStep /\ NextDepth >= 1 /\ NextVisited.content = SourceTextContent)
       => PushedText = <<"\n">> \o SourceTextContent]_vars

-----------------------------------------------------------------------------
(* Claims about task keywords on the lines of a content.                   *)

\* a taskMarker token starts at offset p
TaskMarkerAt(toks, p) ==
    \E i \in 1..Len(toks) :
        toks[i].type = "taskMarker" /\ TokenStart(toks, i) = p

\* a token of any type starts at offset p: the scan loop stood at p
ScannedAt(toks, p) ==
    \E i \in 1..Len(toks) : TokenStart(toks, i) = p

\* C29: when parse has returned, a taskMarker token starts at every offset
\* that is the start of a line of the content, the first or a later one, and
\* holds a task keyword followed by white space.
C29_TaskMarkerOnEveryLine ==
    parsed
    => \A p \in 0..(Len(content) - 1) :
          (AtLineStart(content, p) /\ KeywordAt(content, p))
          => TaskMarkerAt(tokens, p)

\* The same for the offsets the scan loop stood at, offset 0 among them: a
\* keyword there is a taskMarker token.
ScannedKeywordIsTaskMarker ==
    parsed
    => \A p \in 0..(Len(content) - 1) :
          (AtLineStart(content, p) /\ KeywordAt(content, p)
             /\ (p = 0 \/ ScannedAt(tokens, p)))
          => TaskMarkerAt(tokens, p)

\* matchText takes a line break and the keyword behind it into one text token
LaterLineKeywordIsText ==
    (parsed /\ content = <<"\n","T","O","D","O"," ">>)
    => tokens = <<[type |-> "text", value |-> content,
                   metadata |-> NoMetadata, length |-> 6]>>

-----------------------------------------------------------------------------
(* ExportService.exportBlock on host trees that are deeper than the limit  *)
(* of the retrieval.                                                       *)

DepthMaxNodes == 4

\* the limit of the retrieval when maxDepth is not set
DefaultLimit == 10

\* a chain that is one level deeper than the default limit
DeepChain == ChainTo(<<>>, PlainContent, DefaultLimit + 1)

\* the host's trees: those of at most DepthMaxNodes blocks, and the chain
DepthTrees ==
    Blocks({PlainContent}, {PlainContent}, DepthMaxNodes) \cup {DeepChain}

InitDepthLimit ==
    /\ ParserIdle
    /\ block = NoBlock
    /\ options = NoOptions
    /\ result = NoResult
    /\ listDepthOffset = Null
    /\ enteredWith = Null
    /\ conversions = <<>>
    /\ service \in {ServiceAt(tree, <<tree>>) : tree \in DepthTrees}

\* The chain is exported as Markdown and as HTML; the AsciiDoc converter is
\* applied to the trees of at most DepthMaxNodes blocks.
NextDepthLimit ==
    \/ \E format \in Formats, opts \in ExportOptions(BOOLEAN, MaxDepths),
          getBlock \in HostOutcomes :
          /\ service.tree = DeepChain => format # "asciidoc"
          /\ exportBlock(format, opts, getBlock)
    \/ ReturnExport

SpecDepthLimit == InitDepthLimit /\ [][NextDepthLimit]_vars

\* exportBlock has returned for options with includeChildren and a maxDepth
\* that is unset or >= 1
ExportedWithChildren ==
    /\ service.op = "exportBlock"
    /\ service.outcome = "returned"
    /\ service.options.includeChildren
    /\ service.options.maxDepth.set => service.options.maxDepth.value >= 1

\* the limit exportBlock passes to getBlockWithChildren
LimitPassed ==
    IF service.options.maxDepth.set THEN service.options.maxDepth.value
    ELSE DefaultLimit

\* the uuids of the blocks of a tree
UuidsOf(b) == {x.uuid : x \in AllBlocks(b)}

\* the blocks the converter visited: those it pushed content of (every block
\* of these trees has content)
VisitedBlocks == {result.pieces[i].src : i \in 1..Len(result.pieces)}

\* C30: when exportBlock has returned for includeChildren = true and a
\* maxDepth that is unset or >= 1, the tree getBlockWithChildren built holds
\* the blocks of the host's tree down to the limit passed and none deeper,
\* the converter visited every block of it, and blockCount is the number of
\* the blocks visited.
C30_RetrievalLimitCoversCut ==
    ExportedWithChildren
    => /\ UuidsOf(block) = {x.uuid : x \in {y \in AllBlocks(service.tree) :
                                              DepthOf(y) <= LimitPassed}}
       /\ VisitedBlocks = UuidsOf(block)
       /\ result.blockCount = Cardinality(VisitedBlocks)

\* C30: exportBlock with maxDepth 1 returned for a host tree with a block at
\* depth 2: the block was left out by the retrieval, and blockCount is 2; and
\* with maxDepth unset for the chain of depth 11: blockCount is 11.
C30_Witness ==
    /\ ExportedWithChildren
    /\ \/ /\ service.options.maxDepth = [set |-> TRUE, value |-> 1]
          /\ service.tree = ChainTo(<<>>, PlainContent, 2)
          /\ result.blockCount = 2
       \/ /\ ~service.options.maxDepth.set
          /\ service.tree = DeepChain
          /\ result.blockCount = DefaultLimit + 1
    /\ Cardinality(VisitedBlocks) < Cardinality(AllBlocks(service.tree))

=============================================================================
